---- MODULE Spec2Model ----
(***************************************************************************)
(* Entity resolution and caching engine of any-inventree.                  *)
(*                                                                         *)
(* The model follows scripts/utils/entity_resolver.py (resolve_entity,     *)
(* resolve_category_string, resolving_complete), scripts/utils/cache.py    *)
(* (EntityCache) and scripts/utils/csv_db_writer.py (CsvDbWriter).  The    *)
(* resolve_entity of source/utils/entity_resolver.py is the branch of an   *)
(* inactive writer.  The ledger of pending relations (relation_utils.py)   *)
(* and the row pipeline (csv_processing.py, part_creation.py) are modelled *)
(* for scripts/ and, where the code differs, for source/.                  *)
(*                                                                         *)
(* Python values are modelled as tagged pairs <<tag, text>> so that str()  *)
(* is a real conversion: the int 1 is <<"int","1">>, the string "1" is     *)
(* <<"str","1">>, None is <<"none","">>.  A pk is a natural number and     *)
(* the pk None is NoPk.  A payload (dict) is a function from field names   *)
(* to values.                                                              *)
(***************************************************************************)
EXTENDS Integers, Sequences, FiniteSets, TLC

VARIABLES
    caches,                  \* entity_resolver.caches: kind -> (composite key -> pk)
    api_db,                  \* the live backing store: kind -> sequence of entities
    upstream,                \* number of entities per kind in the live store at process start
    CSV_DB_WRITER_IS_ACTIVE, \* CsvDbWriter.CSV_DB_WRITER_IS_ACTIVE
    id_counters_fetched,     \* CsvDbWriter._id_counters_fetched
    ID_UPPER_LIMIT,          \* CsvDbWriter.ID_UPPER_LIMIT: table -> last id issued
    DB_ROWS,                 \* CsvDbWriter.DB_*_ROWS: table -> buffered rows
    csv_output,              \* files under csv-output/: table -> written rows, or NoFile
    entity_cache,            \* cache.entity_cache.caches: kind -> (raw key -> pk)
    returned,                \* history: <<kind, identifier values, pk>> of every successful resolve_entity
    _pending_relations,      \* relation_utils._pending_relations: list of <<part_1 pk, part_2 name>>
    PART_ROWS,               \* part_creation.PART_ROWS: the part rows buffered by create_part
    CURRENT_HIGHEST_PK,      \* part_creation.CURRENT_HIGHEST_PK: the next pk of get_next_pk
    resolvers,               \* concurrent callers of resolve_entity: each one's position in the call
    last                     \* the last operation: its input, result and backing-store calls

vars == <<caches, api_db, upstream, CSV_DB_WRITER_IS_ACTIVE, id_counters_fetched,
          ID_UPPER_LIMIT, DB_ROWS, csv_output, entity_cache, returned,
          _pending_relations, PART_ROWS, CURRENT_HIGHEST_PK, resolvers, last>>

----------------------------------------------------------------------------
(* Bounds *)

\* most entities created (live API entities plus shadow rows) in one run
MaxCreates == 2

\* most categories created by the category walks of one run
MaxCategories == 3

\* most '/'-separated pieces of a category string
MaxSegments == 3

\* most shadow rows buffered by direct calls of the writer
MaxRows == 3

\* the entries the ledger of pending relations holds at most
MaxLedger == 2

\* most data rows of a file
MaxFileRows == 2

\* most part rows buffered by create_part in a run
MaxParts == 3
\* the files of one directory
MaxBatch == 2

\* most instances of a kind that other clients add to the live store
MaxInstances == 3

----------------------------------------------------------------------------
(* Python values *)

NoPk == 0

None == <<"none", "">>

S(s) == <<"str", s>>

Digits == <<"0", "1", "2", "3", "4", "5", "6", "7", "8", "9">>

RECURSIVE IntToStr(_)
IntToStr(n) ==
    IF n < 10 THEN Digits[n + 1] ELSE IntToStr(n \div 10) \o Digits[(n % 10) + 1]

I(n) == <<"int", IntToStr(n)>>

\* str(v)
Str(v) == IF v[1] = "none" THEN "None" ELSE v[2]

\* ErrorCodes
SUCCESS == 0

INVALID_DATA == 3

API_ERROR == 30

ENTITY_CREATION_FAILED == 40

INVALID_NAME == 2

FILE_ERROR == 10

PART_NOT_FOUND == 52

CATEGORY_ERROR == 70

RELATIONS_ERROR == 91

PART_CREATION_ERROR == 100

SUPPLIER_ERROR == 60

\* part_creation.START_PK: the first pk of bulk generation
START_PK == 1

----------------------------------------------------------------------------
(* Identifier schema *)

IDENTIFIER_LUT ==
    [Attachment |-> <<"link", "model_id">>,
     BomItem |-> <<"part", "sub_part">>,
     Company |-> <<"name">>,
     ManufacturerPart |-> <<"MPN">>,
     Parameter |-> <<"part", "template">>,
     ParameterTemplate |-> <<"name">>,
     Part |-> <<"name", "category", "revision">>,
     PartCategory |-> <<"name", "parent">>,
     PartRelated |-> <<"part_1", "part_2">>,
     StockItem |-> <<"part", "supplier_part">>,
     StockLocation |-> <<"name">>,
     SupplierPart |-> <<"SKU">>]

Kinds == DOMAIN IDENTIFIER_LUT

\* iteration order of the EntityCache.caches dict
KindOrder ==
    <<"Attachment", "BomItem", "Company", "ManufacturerPart", "Parameter",
      "ParameterTemplate", "Part", "PartCategory", "PartRelated", "StockItem",
      "StockLocation", "SupplierPart">>

\* IDENTIFIER_LUT.get(entity_type, [])
Identifiers(K) == IF K \in DOMAIN IDENTIFIER_LUT THEN IDENTIFIER_LUT[K] ELSE <<>>

\* composite_key with a payload field taken into the key
composite_key_payload(K, data) ==
    LET present == SelectSeq(Identifiers(K) \o <<"description">>, LAMBDA f : f \in DOMAIN data)
    IN [i \in 1..Len(present) |-> Str(data[present[i]])]

\* tuple(str(data[identifier]) for identifier in identifiers if identifier in data)
composite_key(K, data) ==
    LET present == SelectSeq(Identifiers(K), LAMBDA f : f \in DOMAIN data)
    IN [i \in 1..Len(present) |-> Str(data[present[i]])]

----------------------------------------------------------------------------
(* The live backing store (external collaborator, modelled at its interface) *)

\* the element of a one-element set: Only({e(x) : x \in {v}}) is e with x
\* standing for the value of v, computed once
Only(set) == CHOOSE x \in set : TRUE

\* getattr(entity, field): the store returns every field of an entity;
\* a field that was not given at creation is null
GetAttr(e, f) == IF f \in DOMAIN e.data THEN e.data[f] ELSE None

\* entity_type.create(api, data): the store assigns the next pk of the kind
ApiCreate(db, K, data) ==
    Only({[db |-> [db EXCEPT ![K] = Append(@, [pk |-> pk, data |-> data])], pk |-> pk] :
            pk \in {Len(db[K]) + 1}})

\* tuple(str(getattr(entity, identifier)) for identifier in identifiers)
ListKey(K, e) ==
    LET ids == Identifiers(K) IN [i \in 1..Len(ids) |-> Str(GetAttr(e, ids[i]))]

\* the dict comprehension over entity_type.list(api): a later entity wins
EntityDict(K, ents) ==
    LET keys == {ListKey(K, ents[i]) : i \in 1..Len(ents)}
        LastIdx(k) == CHOOSE i \in 1..Len(ents) :
                         /\ ListKey(K, ents[i]) = k
                         /\ \A j \in 1..Len(ents) : ListKey(K, ents[j]) = k => j <= i
    IN [k \in keys |-> ents[LastIdx(k)].pk]

\* dict.update
DictUpdate(d, e) ==
    [k \in DOMAIN d \cup DOMAIN e |-> IF k \in DOMAIN e THEN e[k] ELSE d[k]]

\* dict.get(key): None when absent
DictGet(d, k) == IF k \in DOMAIN d THEN d[k] ELSE NoPk

EmptyDict == [k \in {} |-> NoPk]

----------------------------------------------------------------------------
(* cache.py: EntityCache (the singleton entity_cache) *)

chunk_size == 500

\* entity_cls.list(api, limit=chunk_size, offset=offset)
ListPage(ents, limit, offset) ==
    IF offset >= Len(ents) THEN <<>>
    ELSE SubSeq(ents, offset + 1, IF offset + limit < Len(ents) THEN offset + limit ELSE Len(ents))

\* EntityCache.IDENTIFIER_LUT: the table the cache builds for itself
EntityCache_IDENTIFIER_LUT ==
    [Attachment |-> <<"link", "model_id">>,
     BomItem |-> <<"part", "sub_part">>,
     Company |-> <<"name">>,
     ManufacturerPart |-> <<"MPN">>,
     Parameter |-> <<"part", "template">>,
     ParameterTemplate |-> <<"name">>,
     Part |-> <<"name", "category", "revision">>,
     PartCategory |-> <<"name", "parent">>,
     PartRelated |-> <<"part_1", "part_2">>,
     StockItem |-> <<"part", "supplier_part">>,
     StockLocation |-> <<"name">>,
     SupplierPart |-> <<"SKU">>]

\* self.IDENTIFIER_LUT.get(entity_cls, [])
id_fields(K) ==
    IF K \in DOMAIN EntityCache_IDENTIFIER_LUT THEN EntityCache_IDENTIFIER_LUT[K] ELSE <<>>

\* tuple(identifiers.get(field) for field in id_fields): the raw values, None
\* for a field the dict does not have
EntityCache_key(K, identifiers) ==
    [i \in 1..Len(id_fields(K)) |->
        IF id_fields(K)[i] \in DOMAIN identifiers THEN identifiers[id_fields(K)[i]] ELSE None]

\* EntityCache.add: the composite key is the tuple of the raw values
add(cache, K, pk, data) ==
    DictUpdate(cache, [k \in {EntityCache_key(K, data)} |-> pk])

RECURSIVE AddItems(_, _, _)
AddItems(cache, K, items) ==
    IF items = <<>> THEN cache
    ELSE LET item == Head(items)
             attrs == [f \in {Identifiers(K)[i] : i \in 1..Len(Identifiers(K))} |-> GetAttr(item, f)]
         IN Only({AddItems(added, K, Tail(items)) : added \in {add(cache, K, item.pk, attrs)}})

\* a populate that takes the first page of a kind only
PopulatePages_first_page(cache, K, ents, limit, offset) ==
    AddItems(cache, K, ListPage(ents, limit, offset))

\* the while loop of populate for one kind
RECURSIVE PopulatePages(_, _, _, _, _)
PopulatePages(cache, K, ents, limit, offset) ==
    Only({IF items = <<>> THEN cache
          ELSE Only({IF Len(items) < limit THEN filled
                     ELSE PopulatePages(filled, K, ents, limit, offset + limit) :
                        filled \in {AddItems(cache, K, items)}}) :
            items \in {ListPage(ents, limit, offset)}})

NoKind == "-"

\* a populate that fills the map a kind already has instead of a new one
RECURSIVE populate_without_reset(_, _, _, _, _)
populate_without_reset(ec, db, keys, limit, failKind) ==
    IF keys = <<>> THEN ec
    ELSE LET K == Head(keys)
         IN IF K = failKind THEN ec
            ELSE Only({populate_without_reset(filled, db, Tail(keys), limit, failKind) :
                        filled \in {[ec EXCEPT ![K] = PopulatePages(@, K, db[K], limit, 0)]}})

\* EntityCache.populate(api, keys): the kinds of keys in order; the list call
\* of kind failKind raises, which ends the whole populate (the try encloses
\* the for loop) after that kind's cache has been reset
RECURSIVE populate(_, _, _, _, _)
populate(ec, db, keys, limit, failKind) ==
    IF keys = <<>> THEN ec
    ELSE LET K == Head(keys)
         IN IF K = failKind THEN [ec EXCEPT ![K] = EmptyDict]
            ELSE Only({populate(filled, db, Tail(keys), limit, failKind) :
                        filled \in {[ec EXCEPT ![K] = PopulatePages(EmptyDict, K, db[K], limit, 0)]}})

\* the list calls the while loop of populate makes for one kind
RECURSIVE ListCalls(_, _, _)
ListCalls(ents, limit, offset) ==
    Only({IF items = <<>> \/ Len(items) < limit THEN 1
          ELSE 1 + ListCalls(ents, limit, offset + limit) :
            items \in {ListPage(ents, limit, offset)}})

\* the offsets the while loop of populate asks the pages of one kind for
RECURSIVE ListOffsets(_, _, _)
ListOffsets(ents, limit, offset) ==
    Only({IF items = <<>> \/ Len(items) < limit THEN <<offset>>
          ELSE <<offset>> \o ListOffsets(ents, limit, offset + limit) :
            items \in {ListPage(ents, limit, offset)}})

\* the list calls of one populate, per kind that was reached
RECURSIVE populate_list_calls(_, _, _, _)
populate_list_calls(db, keys, limit, failKind) ==
    IF keys = <<>> THEN EmptyDict
    ELSE IF Head(keys) = failKind THEN (Head(keys) :> 1)
         ELSE (Head(keys) :> ListCalls(db[Head(keys)], limit, 0))
                @@ populate_list_calls(db, Tail(keys), limit, failKind)

\* EntityCache.get(entity_cls, default)
EntityCacheGet(ec, key, default) == IF key \in DOMAIN ec THEN ec[key] ELSE default

\* EntityCache.find_by_identifiers(entity_cls, identifiers) -> pk, NoPk for
\* the None of an unknown kind and of a key that is not in the cache
find_by_identifiers(ec, K, identifiers) ==
    IF id_fields(K) = <<>> THEN NoPk
    ELSE DictGet(EntityCacheGet(ec, K, EmptyDict), EntityCache_key(K, identifiers))

----------------------------------------------------------------------------
(* csv_db_writer.py: CsvDbWriter *)

\* the dispatch of CsvDbWriter.create on entity_type.__name__
WriterTable ==
    [Part |-> "part", Parameter |-> "partparameter", PartRelated |-> "partrelated",
     ManufacturerPart |-> "manufacturerpart", Attachment |-> "attachment",
     SupplierPart |-> "supplierpart"]

WriterKinds == DOMAIN WriterTable

Tables == {WriterTable[K] : K \in WriterKinds}

\* the kind a table belongs to
KindOfTable(t) == CHOOSE K \in WriterKinds : WriterTable[K] = t

\* the columns of a shadow row that are copied from the payload:
\* column -> <<payload field, default>>
RowColumns ==
    [part |-> [name |-> <<"name", S("")>>, category_id |-> <<"category", S("")>>,
               revision |-> <<"revision", S("0")>>, description |-> <<"description", S("")>>],
     partparameter |-> [part_id |-> <<"part", S("")>>, template_id |-> <<"template", S("")>>,
                        data |-> <<"data", S("")>>],
     partrelated |-> [part_1_id |-> <<"part_1", S("")>>, part_2_id |-> <<"part_2", S("")>>,
                      note |-> <<"note", S("")>>],
     manufacturerpart |-> [MPN |-> <<"MPN", S("")>>, manufacturer_id |-> <<"manufacturer", S("")>>,
                           part_id |-> <<"part", S("")>>, description |-> <<"description", S("")>>],
     attachment |-> [model_id |-> <<"model_id", S("")>>, link |-> <<"link", S("")>>,
                     comment |-> <<"comment", S("")>>],
     supplierpart |-> [SKU |-> <<"SKU", S("")>>, part_id |-> <<"part", S("")>>,
                       supplier_id |-> <<"supplier", S("")>>]]

\* the column that holds each identifier field of the kind
IdColumn ==
    [part |-> [name |-> "name", category |-> "category_id", revision |-> "revision"],
     partparameter |-> [part |-> "part_id", template |-> "template_id"],
     partrelated |-> [part_1 |-> "part_1_id", part_2 |-> "part_2_id"],
     manufacturerpart |-> [MPN |-> "MPN"],
     attachment |-> [link |-> "link", model_id |-> "model_id"],
     supplierpart |-> [SKU |-> "SKU"]]

\* out_row of add_*_db: data.get(field, default) for every column
OutRow(t, id, data) ==
    [id |-> id,
     cols |-> [c \in DOMAIN RowColumns[t] |->
                  IF RowColumns[t][c][1] \in DOMAIN data
                  THEN data[RowColumns[t][c][1]] ELSE RowColumns[t][c][2]]]

\* get_next_id that does not store the incremented counter
get_next_id_unstored(limits, key) ==
    [limits |-> limits, id |-> limits[key] + 1]

\* CsvDbWriter.get_next_id
get_next_id(limits, key) ==
    [limits |-> [limits EXCEPT ![key] = @ + 1], id |-> limits[key] + 1]

\* add_part_row_db, add_partparameter_db, ...: take the next id, append the row
add_row_db(st, t, data) ==
    Only({[st |-> [st EXCEPT !.limits = n.limits,
                             !.rows = [@ EXCEPT ![t] = Append(@, OutRow(t, n.id, data))]],
           pk |-> n.id] :
            n \in {get_next_id(st.limits, t)}})

\* the lower-case string under which fetch_id_counters asks the cache for a kind
CounterCacheKey ==
    [part |-> "part", partparameter |-> "parameter", partrelated |-> "partrelated",
     manufacturerpart |-> "manufacturerpart", attachment |-> "attachment",
     supplierpart |-> "supplierpart"]

\* max((part['pk'] for part in parts), default=None): a non-empty cache map is
\* iterated by its keys (tuples), and part['pk'] raises TypeError
UpperRaises(ec, t) ==
    LET parts == EntityCacheGet(ec, CounterCacheKey[t], EmptyDict)
    IN DOMAIN parts # {}

\* CsvDbWriter.fetch_id_counters: entity_cache.get('part') is looked up by a
\* string, the cache maps are keyed by entity class
fetch_id_counters(st, failKind) ==
    Only({[st |-> [st EXCEPT !.entity_cache = ec],
           raised |-> \E t \in Tables : UpperRaises(ec, t)] :
            ec \in {IF DOMAIN EntityCacheGet(st.entity_cache, "part", EmptyDict) = {}
                    THEN populate(st.entity_cache, st.api_db, KindOrder, chunk_size, failKind)
                    ELSE st.entity_cache}})

\* CsvDbWriter.create(api, entity_type, data) -> (pk, error); raised: an
\* exception left the call
CsvDbWriter_create(st, K, data, failKind) ==
    Only({IF f.raised THEN [st |-> f.st, pk |-> NoPk, error |-> API_ERROR, raised |-> TRUE]
          ELSE Only({IF K \in WriterKinds
                     THEN Only({[st |-> r.st, pk |-> r.pk, error |-> SUCCESS, raised |-> FALSE] :
                                 r \in {add_row_db(st1, WriterTable[K], data)}})
                     ELSE [st |-> st1, pk |-> NoPk, error |-> ENTITY_CREATION_FAILED,
                           raised |-> FALSE] :
                        st1 \in {[f.st EXCEPT !.fetched = TRUE]}}) :
            f \in {IF ~st.fetched THEN fetch_id_counters(st, failKind)
                   ELSE [st |-> st, raised |-> FALSE]}})

\* the marker of a file that was never written: a one-row frame that no add_*_db
\* builds, comparable with every sequence of rows
NoFile == <<[file |-> "none"]>>

\* a flush that writes the frame of a table whether or not it holds rows
write_df_to_csv_always(files, rows, t) == [files EXCEPT ![t] = rows]

\* a flush that opens the file with mode 'a': the frame is added to the file
write_df_to_csv_append(files, rows, t) ==
    IF rows # <<>>
    THEN [files EXCEPT ![t] = IF @ = NoFile THEN rows ELSE @ \o rows]
    ELSE files

\* write_df_to_csv: a non-empty frame is written with mode 'w', an empty one is skipped
write_df_to_csv(files, rows, t) ==
    IF rows # <<>> THEN [files EXCEPT ![t] = rows] ELSE files

\* write_all_db_csv: the six tables in the order of the source
TableOrder ==
    <<"part", "partparameter", "partrelated", "manufacturerpart", "attachment", "supplierpart">>

RECURSIVE WriteTables(_, _, _)
WriteTables(files, rows, ts) ==
    IF ts = <<>> THEN files
    ELSE WriteTables(write_df_to_csv(files, rows[Head(ts)], Head(ts)), rows, Tail(ts))

write_all_db_csv(files, rows) == WriteTables(files, rows, TableOrder)

----------------------------------------------------------------------------
(* entity_resolver.py: resolve_entity *)

\* the identifier fields of a payload that are present, each with its string form
Ident(K, data) ==
    [f \in {Identifiers(K)[i] : i \in 1..Len(Identifiers(K))} \cap DOMAIN data |-> Str(data[f])]

\* the result of one resolve_entity call: the state it leaves, the pk it
\* returns (NoPk for None) and the backing-store calls it made
Outcome(st, pk, K, data, key, hit, listed, api, writer) ==
    [st |-> IF pk = NoPk THEN st ELSE [st EXCEPT !.returned = @ \cup {<<K, Ident(K, data), pk>>}],
     pk |-> pk, kind |-> K, data |-> data, key |-> key, hit |-> hit,
     listed |-> listed, api_create |-> api, writer_create |-> writer]

\* CreateNew that enters the key in the cache before the API create is called
CreateNew_cached_first(st, active, K, data, key, createFails, failKind) ==
    IF active
    THEN Only({IF w.raised
               THEN Outcome(w.st, NoPk, K, data, key, FALSE, "ok", "none", TRUE)
               ELSE IF w.error = ENTITY_CREATION_FAILED \/ w.pk = NoPk
                    THEN IF createFails
                         THEN Outcome(w.st, NoPk, K, data, key, FALSE, "ok", "failed", TRUE)
                         ELSE Only({Outcome([w.st EXCEPT !.api_db = c.db], c.pk,
                                            K, data, key, FALSE, "ok", "ok", TRUE) :
                                     c \in {ApiCreate(w.st.api_db, K, data)}})
                    ELSE Outcome(w.st, w.pk, K, data, key, FALSE, "ok", "none", TRUE) :
                w \in {CsvDbWriter_create(st, K, data, failKind)}})
    ELSE Only({IF createFails
               THEN Outcome(st1, NoPk, K, data, key, FALSE, "ok", "failed", FALSE)
               ELSE Only({Outcome([st1 EXCEPT !.api_db = c.db], c.pk, K, data, key,
                                  FALSE, "ok", "ok", FALSE) :
                           c \in {ApiCreate(st1.api_db, K, data)}}) :
                st1 \in {[st EXCEPT !.caches[K] =
                            DictUpdate(@, [k \in {key} |-> Len(st.api_db[K]) + 1])]}})

\* lines 125-143: create through the writer when it is active, else through
\* the API; only the API branch of an inactive writer stores the pk in the cache
CreateNew(st, active, K, data, key, createFails, failKind) ==
    IF active
    THEN Only({IF w.raised
               THEN Outcome(w.st, NoPk, K, data, key, FALSE, "ok", "none", TRUE)
               ELSE IF w.error = ENTITY_CREATION_FAILED \/ w.pk = NoPk
                    THEN IF createFails
                         THEN Outcome(w.st, NoPk, K, data, key, FALSE, "ok", "failed", TRUE)
                         ELSE Only({Outcome([w.st EXCEPT !.api_db = c.db], c.pk,
                                            K, data, key, FALSE, "ok", "ok", TRUE) :
                                     c \in {ApiCreate(w.st.api_db, K, data)}})
                    ELSE Outcome(w.st, w.pk, K, data, key, FALSE, "ok", "none", TRUE) :
                w \in {CsvDbWriter_create(st, K, data, failKind)}})
    ELSE IF createFails
         THEN Outcome(st, NoPk, K, data, key, FALSE, "ok", "failed", FALSE)
         ELSE Only({Outcome([st EXCEPT !.api_db = c.db,
                                       !.caches = [@ EXCEPT ![K] = DictUpdate(@, [k \in {key} |-> c.pk])]],
                            c.pk, K, data, key, FALSE, "ok", "ok", FALSE) :
                     c \in {ApiCreate(st.api_db, K, data)}})

\* AfterList without the second look in the cache
AfterList_unchecked(st1, active, K, data, key, createFails, failKind) ==
    CreateNew(st1, active, K, data, key, createFails, failKind)

\* lines 116-143: the second look in the cache, after the list call has
\* updated it, then the create
AfterList(st1, active, K, data, key, createFails, failKind) ==
    IF DictGet(st1.caches[K], key) # NoPk
    THEN Outcome(st1, DictGet(st1.caches[K], key), K, data, key, FALSE, "ok", "none", FALSE)
    ELSE CreateNew(st1, active, K, data, key, createFails, failKind)

\* LookupOrCreate that goes on to the create when the list call has failed
LookupOrCreate_past_list_failure(st, active, K, data, key, listFails, createFails, failKind) ==
    IF DictGet(st.caches[K], key) # NoPk
    THEN Outcome(st, DictGet(st.caches[K], key), K, data, key, TRUE, "none", "none", FALSE)
    ELSE IF listFails
         THEN Only({[r EXCEPT !.listed = "failed"] :
                     r \in {CreateNew(st, active, K, data, key, createFails, failKind)}})
         ELSE Only({AfterList(st1, active, K, data, key, createFails, failKind) :
                     st1 \in {[st EXCEPT !.caches[K] =
                                 DictUpdate(@, EntityDict(K, st.api_db[K]))]}})

\* lines 94-143 for a kind with identifiers: the look in the cache, the list
\* call that updates the cache (a failure ends the call), the second look, the
\* create
LookupOrCreate(st, active, K, data, key, listFails, createFails, failKind) ==
    IF DictGet(st.caches[K], key) # NoPk
    THEN Outcome(st, DictGet(st.caches[K], key), K, data, key, TRUE, "none", "none", FALSE)
    ELSE IF listFails
         THEN Outcome(st, NoPk, K, data, key, FALSE, "failed", "none", FALSE)
         ELSE Only({AfterList(st1, active, K, data, key, createFails, failKind) :
                     st1 \in {[st EXCEPT !.caches[K] =
                                 DictUpdate(@, EntityDict(K, st.api_db[K]))]}})

\* resolve_entity that makes the list call for a kind without identifiers
resolve_entity_unguarded(st, active, K, data, listFails, createFails, failKind) ==
    IF Identifiers(K) = <<>>
    THEN Outcome(st, NoPk, K, data, <<>>, FALSE, IF listFails THEN "failed" ELSE "ok",
                 "none", FALSE)
    ELSE Only({LookupOrCreate(st, active, K, data, key, listFails, createFails, failKind) :
                key \in {composite_key(K, data)}})

\* resolve_entity(api, entity_type, data).  listFails: entity_type.list raises;
\* createFails: entity_type.create raises; failKind: the kind whose list call
\* raises inside a populate started by the writer's first use
resolve_entity(st, active, K, data, listFails, createFails, failKind) ==
    IF Identifiers(K) = <<>>
    THEN Outcome(st, NoPk, K, data, <<>>, FALSE, "none", "none", FALSE)
    ELSE Only({LookupOrCreate(st, active, K, data, key, listFails, createFails, failKind) :
                key \in {composite_key(K, data)}})

----------------------------------------------------------------------------
(* entity_resolver.py: resolve_category_string *)
(* A category string is a sequence of one-character strings.               *)

Uppers == <<"A", "B", "C", "D", "E", "F", "G", "H", "I", "J", "K", "L", "M",
            "N", "O", "P", "Q", "R", "S", "T", "U", "V", "W", "X", "Y", "Z">>

Lowers == <<"a", "b", "c", "d", "e", "f", "g", "h", "i", "j", "k", "l", "m",
            "n", "o", "p", "q", "r", "s", "t", "u", "v", "w", "x", "y", "z">>

\* str.lower
Lower(cs) ==
    [i \in 1..Len(cs) |->
        IF \E j \in 1..26 : Uppers[j] = cs[i]
        THEN Lowers[CHOOSE j \in 1..26 : Uppers[j] = cs[i]] ELSE cs[i]]

Whitespace == {" ", "\t", "\n"}

\* str.strip
RECURSIVE LStrip(_)
LStrip(cs) == IF cs # <<>> /\ Head(cs) \in Whitespace THEN LStrip(Tail(cs)) ELSE cs

RECURSIVE RStrip(_)
RStrip(cs) ==
    IF cs # <<>> /\ cs[Len(cs)] \in Whitespace THEN RStrip(SubSeq(cs, 1, Len(cs) - 1)) ELSE cs

Strip(cs) == RStrip(LStrip(cs))

\* str.split('/'): the pieces between the slashes, empty pieces included
RECURSIVE SplitFrom(_, _)
SplitFrom(cs, piece) ==
    IF cs = <<>> THEN <<piece>>
    ELSE IF Head(cs) = "/" THEN <<piece>> \o SplitFrom(Tail(cs), <<>>)
         ELSE SplitFrom(Tail(cs), Append(piece, Head(cs)))

Split(cs) == SplitFrom(cs, <<>>)

\* the characters of a sequence as one string
RECURSIVE Text(_)
Text(cs) == IF cs = <<>> THEN "" ELSE Head(cs) \o Text(Tail(cs))

Nan == <<"n", "a", "n">>

\* category_levels without the strip
category_levels_unstripped(category_string) ==
    SelectSeq(Split(category_string), LAMBDA level : level # <<>> /\ Lower(level) # Nan)

\* [level.strip() for level in category_string.split('/')
\*      if level and str(level).lower() != 'nan']:
\* the filter looks at the piece as split, the strip comes after it
category_levels(category_string) ==
    LET kept == SelectSeq(Split(category_string), LAMBDA level : level # <<>> /\ Lower(level) # Nan)
    IN [i \in 1..Len(kept) |-> Strip(kept[i])]

\* Python bool as a value
Bool(b) == <<"bool", IF b THEN "True" ELSE "False">>

\* the for loop from level idx on; downAt: the resolve_entity call (counted
\* from 1) during which the backing store is unavailable, 0 for none
RECURSIVE CategoryWalk(_, _, _, _, _, _, _)
CategoryWalk(st, active, levels, idx, parent_pk, downAt, failKind) ==
    IF idx > Len(levels)
    THEN [st |-> st, pk |-> parent_pk, error |-> SUCCESS, calls |-> idx - 1]
    ELSE LET is_last == idx = Len(levels)
             data == [name |-> S(Text(levels[idx])), structural |-> Bool(~is_last),
                      parent |-> IF parent_pk = NoPk THEN None ELSE I(parent_pk)]
         IN Only({IF r.pk = NoPk
                  THEN [st |-> r.st, pk |-> NoPk, error |-> ENTITY_CREATION_FAILED,
                        calls |-> idx]
                  ELSE CategoryWalk(r.st, active, levels, idx + 1, r.pk, downAt, failKind) :
                    r \in {resolve_entity(st, active, "PartCategory", data,
                                          downAt = idx, downAt = idx, failKind)}})

\* resolve_category_string(api, category_string) -> (category_pk, error_code)
resolve_category_string(st, active, category_string, downAt, failKind) ==
    Only({IF levels = <<>>
          THEN [st |-> st, pk |-> NoPk, error |-> INVALID_DATA, calls |-> 0]
          ELSE CategoryWalk(st, active, levels, 1, NoPk, downAt, failKind) :
            levels \in {category_levels(category_string)}})

----------------------------------------------------------------------------
(* relation_utils.py: the ledger of pending relations *)
(* A ledger entry is <<part_1 pk, part_2 name>>, the name a plain string.  *)

\* scripts/utils/relation_utils.py add_pending_relation(part_1_pk, part_2_name)
\* -> error code
add_pending_relation(pending, part_1_pk, part_2_name) ==
    IF part_2_name = ""
    THEN [pending |-> pending, error |-> PART_NOT_FOUND]
    ELSE [pending |-> Append(pending, <<part_1_pk, part_2_name>>), error |-> SUCCESS]

\* source/utils/relation_utils.py add_pending_relation(part_1_pk, part_2_name):
\* it returns nothing
add_pending_relation_source(pending, part_1_pk, part_2_name) ==
    IF part_2_name = "" THEN pending ELSE Append(pending, <<part_1_pk, part_2_name>>)

\* {key[0]: pk for key, pk in parts.items()} over a cache map of parts: a later
\* entry of a name replaces an earlier one, and populate enters the parts in
\* list order, the order of their pks
part_lookup(parts) ==
    [n \in {key[1] : key \in DOMAIN parts} |->
        CHOOSE pk \in {parts[key] : key \in {k \in DOMAIN parts : k[1] = n}} :
            \A k \in DOMAIN parts : k[1] = n => parts[k] <= pk]

\* {part['name']: part['pk'] for part in parts} over the listed parts
part_lookup_listed(parts) ==
    [n \in {GetAttr(parts[i], "name") : i \in 1..Len(parts)} |->
        parts[CHOOSE i \in 1..Len(parts) :
                /\ GetAttr(parts[i], "name") = n
                /\ \A j \in 1..Len(parts) : GetAttr(parts[j], "name") = n => j <= i].pk]

\* the for loop over the ledger from entry idx on.  fault, downAt: the entry
\* (counted from 1) during whose resolve_entity the list or the create call of
\* the backing store raises.  calls: the resolve_entity calls made
RECURSIVE RelationsLoop(_, _, _, _, _, _, _, _)
RelationsLoop(st, active, pending, idx, lookup, fault, downAt, failKind) ==
    IF idx > Len(pending) THEN [st |-> st, calls |-> 0]
    ELSE IF S(pending[idx][2]) \notin DOMAIN lookup
         THEN RelationsLoop(st, active, pending, idx + 1, lookup, fault, downAt, failKind)
         ELSE Only({Only({[st |-> rest.st, calls |-> rest.calls + 1] :
                           rest \in {RelationsLoop(r.st, active, pending, idx + 1, lookup,
                                                    fault, downAt, failKind)}}) :
                r \in {resolve_entity(st, active, "PartRelated",
                                       [part_1 |-> I(pending[idx][1]),
                                        part_2 |-> I(lookup[S(pending[idx][2])])],
                                       fault = "list" /\ downAt = idx,
                                       fault = "create" /\ downAt = idx, failKind)}})

\* scripts/utils/relation_utils.py resolve_pending_relations(api): the names
\* are looked up in entity_cache; nothing before the clear can raise, so the
\* outer except is never entered
resolve_pending_relations(st, active, pending, fault, downAt, failKind) ==
    Only({[st |-> w.st, pending |-> <<>>, error |-> SUCCESS, raised |-> FALSE,
           calls |-> w.calls] :
            w \in {RelationsLoop(st, active, pending, 1,
                                  part_lookup(EntityCacheGet(st.entity_cache, "Part", EmptyDict)),
                                  fault, downAt, failKind)}})

\* source/utils/relation_utils.py resolve_pending_relations(api): the names
\* are looked up in Part.list(api), which is outside every try; partListFails:
\* that call raises and the exception leaves the function
resolve_pending_relations_source(st, pending, partListFails, fault, downAt) ==
    IF partListFails
    THEN [st |-> st, pending |-> pending, error |-> SUCCESS, raised |-> TRUE, calls |-> 0]
    ELSE Only({[st |-> w.st, pending |-> <<>>, error |-> SUCCESS, raised |-> FALSE,
                calls |-> w.calls] :
                w \in {RelationsLoop(st, FALSE, pending, 1,
                                      part_lookup_listed(st.api_db["Part"]),
                                      fault, downAt, NoKind)}})

----------------------------------------------------------------------------
(* Inputs *)

NameFields == {"name", "MPN", "SKU", "link"}

\* a value of the field, one that differs from it, and the same text in
\* another Python type
BaseValue(f) ==
    IF f \in NameFields THEN S("a")
    ELSE IF f = "parent" THEN None
    ELSE IF f = "revision" THEN S("0") ELSE I(1)

AltValue(f) ==
    IF f \in NameFields THEN S("b")
    ELSE IF f = "parent" THEN I(1)
    ELSE IF f = "revision" THEN S("1") ELSE I(2)

Retyped(f) ==
    IF f \in NameFields THEN S("a")
    ELSE IF f = "parent" THEN S("None")
    ELSE IF f = "revision" THEN I(0) ELSE S("1")

FieldSet(K) == {Identifiers(K)[i] : i \in 1..Len(Identifiers(K))}

LastField(K) == Identifiers(K)[Len(Identifiers(K))]

BasePayload(K) == [f \in FieldSet(K) |-> BaseValue(f)]

\* the payloads a call is made with: the base payload; the last identifier
\* changed; the last identifier in another type; the last identifier absent;
\* a non-identifier field added
Payloads(K) ==
    LET P0 == BasePayload(K)
        l == LastField(K)
    IN {P0,
        [P0 EXCEPT ![l] = AltValue(l)],
        [P0 EXCEPT ![l] = Retyped(l)],
        [f \in FieldSet(K) \ {l} |-> P0[f]],
        [f \in FieldSet(K) \cup {"description"} |-> IF f = "description" THEN S("x") ELSE P0[f]]}

\* the kinds resolve_entity is called for
ResolveKinds == {"Company", "Part"}

\* the kind whose list call fails inside populate
PopulateFailures == {NoKind, "Part"}

EmptyDb == [K \in Kinds |-> <<>>]

\* a live store that already holds a category and a part when the process starts
UpstreamDb ==
    [EmptyDb EXCEPT
        !["PartCategory"] = <<[pk |-> 1, data |-> [name |-> S("Z"), parent |-> None,
                                                   structural |-> Bool(FALSE)]]>>,
        !["Part"] = <<[pk |-> 1, data |-> [name |-> S("a"), category |-> I(1),
                                           revision |-> S("0"), description |-> S("")]]>>]

InitialStores == {EmptyDb, UpstreamDb}

----------------------------------------------------------------------------
(* State machine *)

State ==
    [caches |-> caches, api_db |-> api_db, fetched |-> id_counters_fetched,
     limits |-> ID_UPPER_LIMIT, rows |-> DB_ROWS, entity_cache |-> entity_cache,
     returned |-> returned]

Apply(st) ==
    /\ caches' = st.caches
    /\ api_db' = st.api_db
    /\ id_counters_fetched' = st.fetched
    /\ ID_UPPER_LIMIT' = st.limits
    /\ DB_ROWS' = st.rows
    /\ entity_cache' = st.entity_cache
    /\ returned' = st.returned

RECURSIVE SumLen(_, _)
SumLen(f, keys) == IF keys = <<>> THEN 0 ELSE Len(f[Head(keys)]) + SumLen(f, Tail(keys))

\* entities created since process start: live entities plus shadow rows
Created(st) ==
    SumLen(st.api_db, KindOrder) - SumLen(upstream, KindOrder) + SumLen(st.rows, TableOrder)

NoOp ==
    [op |-> "init", kind |-> NoKind, data |-> EmptyDict, key |-> <<>>, pk |-> NoPk,
     hit |-> FALSE, listed |-> "none", api_create |-> "none", writer_create |-> FALSE,
     path |-> <<>>, error |-> SUCCESS, calls |-> 0,
     name |-> "", fault |-> "none", raised |-> FALSE, file |-> <<>>, pks |-> <<>>,
     keys |-> <<>>, before |-> EmptyDict, list_calls |-> EmptyDict, batch |-> <<>>,
     value |-> <<>>, unit |-> "", display |-> <<>>, numeric |-> None, failed |-> 0,
     limit |-> 0, offsets |-> EmptyDict]

\* the concurrent callers of resolve_entity
Procs == {1, 2}

\* a caller that has not entered resolve_entity
IdleResolver ==
    [pc |-> "idle", kind |-> NoKind, data |-> EmptyDict, key |-> <<>>, pk |-> NoPk,
     created |-> FALSE]

Init ==
    /\ caches = [K \in Kinds |-> EmptyDict]
    /\ api_db \in InitialStores
    /\ upstream = api_db
    /\ CSV_DB_WRITER_IS_ACTIVE = FALSE
    /\ id_counters_fetched = FALSE
    /\ ID_UPPER_LIMIT = [t \in Tables |-> 0]
    /\ DB_ROWS = [t \in Tables |-> <<>>]
    /\ csv_output = [t \in Tables |-> NoFile]
    /\ entity_cache = [K \in Kinds |-> EmptyDict]
    /\ returned = {}
    /\ _pending_relations = <<>>
    /\ PART_ROWS = <<>>
    /\ CURRENT_HIGHEST_PK = START_PK
    /\ resolvers = [p \in Procs |-> IdleResolver]
    /\ last = NoOp

\* the faults of the backing store during one call: list raises, create raises
Faults == {"none", "list", "create"}

\* the populate failures that can occur in this state: populate only runs
\* inside the writer's first create
PopulateFaults == IF CSV_DB_WRITER_IS_ACTIVE /\ ~id_counters_fetched THEN PopulateFailures ELSE {NoKind}

\* a call of resolve_entity
ResolveEntity ==
    \E K \in ResolveKinds : \E data \in Payloads(K) :
    \E fault \in Faults, failKind \in PopulateFaults :
    \E r \in {resolve_entity(State, CSV_DB_WRITER_IS_ACTIVE, K, data,
                              fault = "list", fault = "create", failKind)} :
           /\ Created(r.st) <= MaxCreates
           /\ Apply(r.st)
           /\ last' = [NoOp EXCEPT !.op = "resolve_entity", !.kind = K, !.data = data,
                                   !.key = r.key, !.pk = r.pk, !.hit = r.hit,
                                   !.listed = r.listed, !.api_create = r.api_create,
                                   !.writer_create = r.writer_create]
           /\ UNCHANGED <<resolvers, upstream, CSV_DB_WRITER_IS_ACTIVE, csv_output,
                          _pending_relations, PART_ROWS, CURRENT_HIGHEST_PK>>

\* a kind of the client library that has no entry in IDENTIFIER_LUT
UnregisteredKinds == {"PartCategoryParameterTemplate"}

UnregisteredPayloads ==
    {[category |-> I(1), parameter_template |-> I(1)], [name |-> S("a")]}

\* a call of resolve_entity for a kind that is not registered
ResolveUnregistered ==
    \E K \in UnregisteredKinds : \E data \in UnregisteredPayloads :
    \E fault \in Faults, failKind \in PopulateFaults :
    \E r \in {resolve_entity(State, CSV_DB_WRITER_IS_ACTIVE, K, data,
                              fault = "list", fault = "create", failKind)} :
           /\ Created(r.st) <= MaxCreates
           /\ Apply(r.st)
           /\ last' = [NoOp EXCEPT !.op = "resolve_entity", !.kind = K, !.data = data,
                                   !.key = r.key, !.pk = r.pk, !.hit = r.hit,
                                   !.listed = r.listed, !.api_create = r.api_create,
                                   !.writer_create = r.writer_create, !.fault = fault]
           /\ UNCHANGED <<resolvers, upstream, CSV_DB_WRITER_IS_ACTIVE, csv_output,
                          _pending_relations, PART_ROWS, CURRENT_HIGHEST_PK>>

\* CsvDbWriter.set_active(active): the mode is selected once, at start-up,
\* before the first operation of the run
set_active ==
    \E active \in BOOLEAN :
        /\ last.op = "init"
        /\ CSV_DB_WRITER_IS_ACTIVE' = active
        /\ last' = [NoOp EXCEPT !.op = "set_active"]
        /\ UNCHANGED <<resolvers, caches, api_db, upstream, id_counters_fetched, ID_UPPER_LIMIT,
                       DB_ROWS, csv_output, entity_cache, returned,
                       _pending_relations, PART_ROWS, CURRENT_HIGHEST_PK>>

\* the cells a category string is built from: names, the empty cell and the
\* text of a missing (NaN) cell
LevelName(i) == IF i % 2 = 1 THEN <<"A">> ELSE <<"B">>

\* f"{row['CATEGORY']} / {row['TYPE']}", for any number of cells
RECURSIVE JoinLevels(_)
JoinLevels(cells) ==
    IF Len(cells) = 1 THEN cells[1]
    ELSE cells[1] \o <<" ", "/", " ">> \o JoinLevels(Tail(cells))

\* 'A', 'A / B', 'A / B / A', ...: the first and the third level have the
\* same name under different parents
ValidPaths ==
    {JoinLevels([i \in 1..n |-> LevelName(i)]) : n \in 1..MaxSegments}

\* category strings in which no piece is a name
JunkPaths ==
    {<<>>, Nan, JoinLevels(<<<<>>, <<>>>>), JoinLevels(<<Nan, Nan>>)}

CategoryStrings == ValidPaths \cup JunkPaths

\* the call of resolve_entity during which the store goes down (0: never)
DownAt == {0, 1, 2}

\* a call of resolve_category_string
ResolveCategoryString ==
    \E category_string \in CategoryStrings :
    \E downAt \in {d \in DownAt : d <= Len(category_levels(category_string))} :
    \E r \in {resolve_category_string(State, CSV_DB_WRITER_IS_ACTIVE, category_string,
                                       downAt, NoKind)} :
           /\ Len(r.st.api_db["PartCategory"]) - Len(upstream["PartCategory"]) <= MaxCategories
           /\ Apply(r.st)
           /\ last' = [NoOp EXCEPT !.op = "resolve_category_string", !.path = category_string,
                                   !.pk = r.pk, !.error = r.error, !.calls = r.calls,
                                   !.failed = IF r.error = ENTITY_CREATION_FAILED
                                              THEN r.calls ELSE 0]
           /\ UNCHANGED <<resolvers, upstream, CSV_DB_WRITER_IS_ACTIVE, csv_output,
                          _pending_relations, PART_ROWS, CURRENT_HIGHEST_PK>>

\* the kinds and payloads CsvDbWriter.create is called with directly
WriterCallKinds == {"Part", "Parameter", "SupplierPart", "Company"}

WriterPayloads(K) == {BasePayload(K), [BasePayload(K) EXCEPT ![LastField(K)] = AltValue(LastField(K))]}

\* a call of CsvDbWriter.create
CsvDbWriterCreate ==
    \E K \in WriterCallKinds : \E data \in WriterPayloads(K) : \E failKind \in PopulateFailures :
    \E r \in {CsvDbWriter_create(State, K, data,
                                 IF id_counters_fetched THEN NoKind ELSE failKind)} :
           /\ SumLen(r.st.rows, TableOrder) <= MaxRows
           /\ Apply(r.st)
           /\ last' = [NoOp EXCEPT !.op = "create", !.kind = K, !.data = data,
                                   !.pk = r.pk, !.error = r.error]
           /\ UNCHANGED <<resolvers, upstream, CSV_DB_WRITER_IS_ACTIVE, csv_output,
                          _pending_relations, PART_ROWS, CURRENT_HIGHEST_PK>>

\* CsvDbWriter.write_all_db_csv() (resolving_complete)
WriteAllDbCsv ==
    /\ csv_output' = write_all_db_csv(csv_output, DB_ROWS)
    /\ last' = [NoOp EXCEPT !.op = "write_all_db_csv", !.before = csv_output]
    /\ UNCHANGED <<resolvers, caches, api_db, upstream, CSV_DB_WRITER_IS_ACTIVE, id_counters_fetched,
                   ID_UPPER_LIMIT, DB_ROWS, entity_cache, returned,
                   _pending_relations, PART_ROWS, CURRENT_HIGHEST_PK>>

\* the ledger entries of a call: the pk of the part of the row and the name
\* in its RELATEDPARTS cell; part "a" is the part of UpstreamDb
RelationPks == {1, 2}

RelatedNames == {"", "a", "x"}

\* add_pending_relation(part_1_pk, part_2_name) of scripts/
AddPendingRelation ==
    \E part_1_pk \in RelationPks, part_2_name \in RelatedNames :
    \E r \in {add_pending_relation(_pending_relations, part_1_pk, part_2_name)} :
        /\ Len(r.pending) <= MaxLedger
        /\ _pending_relations' = r.pending
        /\ last' = [NoOp EXCEPT !.op = "add_pending_relation", !.pk = part_1_pk,
                                !.name = part_2_name, !.error = r.error]
        /\ UNCHANGED <<resolvers, caches, api_db, upstream, CSV_DB_WRITER_IS_ACTIVE, id_counters_fetched,
                       ID_UPPER_LIMIT, DB_ROWS, csv_output, entity_cache, returned,
                       PART_ROWS, CURRENT_HIGHEST_PK>>

\* resolve_pending_relations(api) of scripts/
ResolvePendingRelations ==
    \E fault \in Faults, downAt \in 1..MaxLedger, failKind \in PopulateFaults :
    \E r \in {resolve_pending_relations(State, CSV_DB_WRITER_IS_ACTIVE, _pending_relations,
                                         fault, downAt, failKind)} :
        /\ fault = "none" => downAt = 1
        /\ Created(r.st) <= MaxCreates
        /\ Apply(r.st)
        /\ _pending_relations' = r.pending
        /\ last' = [NoOp EXCEPT !.op = "resolve_pending_relations", !.error = r.error,
                                !.calls = r.calls, !.fault = fault, !.raised = r.raised]
        /\ UNCHANGED <<resolvers, upstream, CSV_DB_WRITER_IS_ACTIVE, csv_output, PART_ROWS,
                       CURRENT_HIGHEST_PK>>

\* the resolve of a row's manufacturer in create_suppliers_and_manufacturers
ManufacturerNames == {"m", "n"}

ResolveManufacturer ==
    \E manufacturer_name \in ManufacturerNames, failKind \in PopulateFaults :
    \E data \in {[name |-> S(manufacturer_name), is_supplier |-> Bool(FALSE),
                   is_manufacturer |-> Bool(TRUE)]} :
    \E r \in {resolve_entity(State, CSV_DB_WRITER_IS_ACTIVE, "Company", data,
                              FALSE, FALSE, failKind)} :
        /\ Created(r.st) <= MaxCreates
        /\ Apply(r.st)
        /\ last' = [NoOp EXCEPT !.op = "resolve_entity", !.kind = "Company", !.data = data,
                                !.key = r.key, !.pk = r.pk, !.hit = r.hit,
                                !.listed = r.listed, !.api_create = r.api_create,
                                !.writer_create = r.writer_create]
        /\ UNCHANGED <<resolvers, upstream, CSV_DB_WRITER_IS_ACTIVE, csv_output,
                       _pending_relations, PART_ROWS, CURRENT_HIGHEST_PK>>

\* add_pending_relation(part_1_pk, part_2_name) of source/: it returns nothing
AddPendingRelationSource ==
    \E part_1_pk \in RelationPks, part_2_name \in RelatedNames :
    \E pending \in {add_pending_relation_source(_pending_relations, part_1_pk, part_2_name)} :
        /\ Len(pending) <= MaxLedger
        /\ _pending_relations' = pending
        /\ last' = [NoOp EXCEPT !.op = "add_pending_relation", !.pk = part_1_pk,
                                !.name = part_2_name]
        /\ UNCHANGED <<resolvers, caches, api_db, upstream, CSV_DB_WRITER_IS_ACTIVE, id_counters_fetched,
                       ID_UPPER_LIMIT, DB_ROWS, csv_output, entity_cache, returned,
                       PART_ROWS, CURRENT_HIGHEST_PK>>

\* resolve_pending_relations(api) of source/
ResolvePendingRelationsSource ==
    \E partListFails \in BOOLEAN, fault \in Faults, downAt \in 1..MaxLedger :
    \E r \in {resolve_pending_relations_source(State, _pending_relations, partListFails,
                                                fault, downAt)} :
        /\ fault = "none" => downAt = 1
        /\ partListFails => fault = "none"
        /\ Created(r.st) <= MaxCreates
        /\ Apply(r.st)
        /\ _pending_relations' = r.pending
        /\ last' = [NoOp EXCEPT !.op = "resolve_pending_relations", !.calls = r.calls,
                                !.fault = IF partListFails THEN "list" ELSE fault,
                                !.raised = r.raised]
        /\ UNCHANGED <<resolvers, upstream, CSV_DB_WRITER_IS_ACTIVE, csv_output, PART_ROWS,
                       CURRENT_HIGHEST_PK>>

----------------------------------------------------------------------------
(* scripts/utils/csv_processing.py and part_creation.py: the row pipeline   *)
(* A row is a record of cells, each cell a sequence of one-character        *)
(* strings, a missing cell the sequence Nan; RELATEDPARTS is the sequence   *)
(* of the pieces between the commas of the cell.  The pipeline state ps    *)
(* holds the resolver state st, the ledger, PART_ROWS and the next pk.     *)

\* part_creation.USE_API: no code sets it to True
USE_API == FALSE

\* get_next_pk(): the pk is the counter, which is then incremented
get_next_pk(next_pk) == [pk |-> next_pk, next_pk |-> next_pk + 1]

\* part_creation.add_part_row_db(api, row, pk, category_pk): one row appended
\* to PART_ROWS, with the cells of the row as read
add_part_row_db(part_rows, row, pk, category_pk) ==
    Append(part_rows, [id |-> pk, name |-> S(Text(row.NAME)), category_id |-> category_pk,
                       revision |-> S(Text(row.REVISION))])

\* lines 239-243 of create_part: every piece of RELATEDPARTS that is not blank
\* is recorded, stripped, for the part pk
RECURSIVE AddRelated(_, _, _)
AddRelated(pending, pk, pieces) ==
    IF pieces = <<>> THEN pending
    ELSE IF Strip(Head(pieces)) = <<>> THEN AddRelated(pending, pk, Tail(pieces))
         ELSE Only({AddRelated(r.pending, pk, Tail(pieces)) :
                     r \in {add_pending_relation(pending, pk, Text(Strip(Head(pieces))))}})

\* create_part(api, row, category_pk) -> (part_pk, error_code) with USE_API
\* False: the branches under "if USE_API" (resolve_entity of the Part, the
\* patches of link and IPN, the Attachment) are not taken
create_part(ps, row, category_pk) ==
    IF Strip(row.NAME) = <<>> \/ row.NAME = Nan
    THEN [ps |-> ps, pk |-> NoPk, error |-> INVALID_NAME]
    ELSE Only({[ps |-> [ps EXCEPT !.next_pk = n.next_pk,
                                  !.part_rows = add_part_row_db(@, row, n.pk, category_pk),
                                  !.pending = AddRelated(@, n.pk, row.RELATEDPARTS)],
                pk |-> n.pk, error |-> SUCCESS] :
                n \in {get_next_pk(ps.next_pk)}})

\* the for loop of process_database_file from row idx on.  downRow: the row
\* (counted from 1) during whose category resolution the backing store is down.
\* pks: the part pks create_part returned, in row order
RECURSIVE PipelineRows(_, _, _, _, _, _)
PipelineRows(ps, active, rows, idx, downRow, failKind) ==
    IF idx > Len(rows) THEN [ps |-> ps, error |-> SUCCESS, pks |-> <<>>]
    ELSE Only({
        IF c.error # SUCCESS \/ c.pk = NoPk
        THEN [ps |-> [ps EXCEPT !.st = c.st], error |-> CATEGORY_ERROR, pks |-> <<>>]
        ELSE Only({
            IF p.error # SUCCESS
            THEN [ps |-> p.ps, error |-> PART_CREATION_ERROR, pks |-> <<>>]
            ELSE Only({[ps |-> rest.ps, error |-> rest.error, pks |-> <<p.pk>> \o rest.pks] :
                        rest \in {PipelineRows(p.ps, active, rows, idx + 1, downRow, failKind)}}) :
                p \in {create_part([ps EXCEPT !.st = c.st], rows[idx], c.pk)}}) :
            c \in {resolve_category_string(ps.st, active,
                                            JoinLevels(<<rows[idx].CATEGORY, rows[idx].TYPE>>),
                                            IF idx = downRow THEN 1 ELSE 0, failKind)}})

\* df.iloc[:4]: the rows of a file that are processed
row_limit == 4

\* process_database_file(api, filename) -> error code.  unreadable: read_csv
\* raises.  The calls of create_parameters, create_suppliers_and_manufacturers
\* and resolve_pending_relations are commented out in the source; the flush
\* (resolving_complete) runs only when no row returned early
process_database_file(ps, files, active, file, unreadable, downRow, failKind) ==
    IF unreadable THEN [ps |-> ps, files |-> files, error |-> FILE_ERROR, pks |-> <<>>]
    ELSE Only({[ps |-> r.ps,
                files |-> IF r.error = SUCCESS THEN write_all_db_csv(files, r.ps.st.rows)
                          ELSE files,
                error |-> r.error, pks |-> r.pks] :
                r \in {PipelineRows(ps, active,
                                     SubSeq(file, 1, IF Len(file) < row_limit THEN Len(file)
                                                     ELSE row_limit),
                                     1, downRow, failKind)}})

\* the rows of the files: part p with the related part q, part q, a row
\* without a name
Row(name, related) ==
    [NAME |-> name, CATEGORY |-> LevelName(1), TYPE |-> LevelName(2), REVISION |-> <<"0">>,
     RELATEDPARTS |-> related]

RowPool ==
    {Row(<<"p">>, <<<<" ", "q">>, <<" ">>>>), Row(<<"q">>, <<>>), Row(Nan, <<>>)}

Files == UNION {[1..n -> RowPool] : n \in 0..MaxFileRows}

PipelineState ==
    [st |-> State, pending |-> _pending_relations, part_rows |-> PART_ROWS,
     next_pk |-> CURRENT_HIGHEST_PK]

\* a call of process_database_file of scripts/
ProcessDatabaseFile ==
    \E file \in Files, unreadable \in BOOLEAN, downRow \in 0..MaxFileRows,
       failKind \in PopulateFaults :
    \E r \in {process_database_file(PipelineState, csv_output, CSV_DB_WRITER_IS_ACTIVE, file,
                                     unreadable, downRow, failKind)} :
        /\ unreadable => downRow = 0
        /\ downRow <= Len(file)
        /\ Len(r.ps.part_rows) <= MaxParts
        /\ Len(r.ps.pending) <= MaxLedger
        /\ Apply(r.ps.st)
        /\ _pending_relations' = r.ps.pending
        /\ PART_ROWS' = r.ps.part_rows
        /\ CURRENT_HIGHEST_PK' = r.ps.next_pk
        /\ csv_output' = r.files
        /\ last' = [NoOp EXCEPT !.op = "process_database_file", !.file = file,
                                !.error = r.error, !.pks = r.pks,
                                !.fault = IF unreadable THEN "read"
                                          ELSE IF downRow # 0 THEN "list" ELSE "none"]
        /\ UNCHANGED <<resolvers, upstream, CSV_DB_WRITER_IS_ACTIVE>>

\* a call of create_part for a row whose category has been resolved
CreatePart ==
    \E row \in RowPool, category_pk \in RelationPks :
    \E r \in {create_part(PipelineState, row, category_pk)} :
        /\ Len(r.ps.part_rows) <= MaxParts
        /\ Len(r.ps.pending) <= MaxLedger
        /\ _pending_relations' = r.ps.pending
        /\ PART_ROWS' = r.ps.part_rows
        /\ CURRENT_HIGHEST_PK' = r.ps.next_pk
        /\ last' = [NoOp EXCEPT !.op = "create_part", !.file = <<row>>, !.pk = r.pk,
                                !.error = r.error, !.calls = category_pk]
        /\ UNCHANGED <<resolvers, caches, api_db, upstream, CSV_DB_WRITER_IS_ACTIVE,
                       id_counters_fetched, ID_UPPER_LIMIT, DB_ROWS, csv_output, entity_cache,
                       returned>>

\* set_bulk_mode(start_pk): the counter of get_next_pk is set to start_pk
set_bulk_mode(start_pk) == start_pk

\* get_highest_part_pk(api): the highest pk of Part.list(api), 0 when the store
\* holds no part or the list call raises
get_highest_part_pk(db, listFails) ==
    IF listFails \/ db["Part"] = <<>> THEN 0
    ELSE CHOOSE pk \in {db["Part"][i].pk : i \in 1..Len(db["Part"])} :
            \A i \in 1..Len(db["Part"]) : db["Part"][i].pk <= pk

\* a call of set_bulk_mode_from_api(api)
SetBulkModeFromApi ==
    \E listFails \in BOOLEAN :
        /\ CURRENT_HIGHEST_PK' = set_bulk_mode(get_highest_part_pk(api_db, listFails) + 1)
        /\ last' = [NoOp EXCEPT !.op = "set_bulk_mode_from_api",
                                !.fault = IF listFails THEN "list" ELSE "none"]
        /\ UNCHANGED <<resolvers, caches, api_db, upstream, CSV_DB_WRITER_IS_ACTIVE,
                       id_counters_fetched, ID_UPPER_LIMIT, DB_ROWS, csv_output, entity_cache,
                       returned, _pending_relations, PART_ROWS>>

\* the files with one row more than the for loop of process_database_file
\* takes, every row with a name
LongFiles == [1..(row_limit + 1) -> {Row(<<"p">>, <<>>), Row(<<"q">>, <<>>)}]

\* a call of process_database_file of scripts/ on a long file, one in a run
ProcessLongFile ==
    \E file \in LongFiles, unreadable \in BOOLEAN, downRow \in {0, 1},
       failKind \in PopulateFaults :
    \E r \in {process_database_file(PipelineState, csv_output, CSV_DB_WRITER_IS_ACTIVE, file,
                                     unreadable, downRow, failKind)} :
        /\ last.op # "process_database_file"
        /\ unreadable => downRow = 0
        /\ Apply(r.ps.st)
        /\ _pending_relations' = r.ps.pending
        /\ PART_ROWS' = r.ps.part_rows
        /\ CURRENT_HIGHEST_PK' = r.ps.next_pk
        /\ csv_output' = r.files
        /\ last' = [NoOp EXCEPT !.op = "process_database_file", !.file = file,
                                !.error = r.error, !.pks = r.pks,
                                !.fault = IF unreadable THEN "read"
                                          ELSE IF downRow # 0 THEN "list" ELSE "none"]
        /\ UNCHANGED <<resolvers, upstream, CSV_DB_WRITER_IS_ACTIVE>>

----------------------------------------------------------------------------
(* source/utils: the category walk and the row pipeline of the API importer *)

\* the for loop of resolve_category_string of source/ from level idx on: the
\* result of resolve_entity is not examined, a level that failed leaves
\* parent_pk None for the next level; failed: the first level whose
\* resolve_entity returned None, 0 for none
RECURSIVE CategoryWalkSource(_, _, _, _, _)
CategoryWalkSource(st, levels, idx, parent_pk, downAt) ==
    IF idx > Len(levels)
    THEN [st |-> st, pk |-> parent_pk, calls |-> idx - 1, failed |-> 0]
    ELSE LET is_last == idx = Len(levels)
             data == [name |-> S(Text(levels[idx])), structural |-> Bool(~is_last),
                      parent |-> IF parent_pk = NoPk THEN None ELSE I(parent_pk)]
         IN Only({Only({[rest EXCEPT !.failed = IF r.pk = NoPk THEN idx ELSE @] :
                          rest \in {CategoryWalkSource(r.st, levels, idx + 1, r.pk, downAt)}}) :
                    r \in {resolve_entity(st, FALSE, "PartCategory", data,
                                          downAt = idx, downAt = idx, NoKind)}})

\* source/utils/entity_resolver.py resolve_category_string(api, category_string)
\* -> category_pk
resolve_category_string_source(st, category_string, downAt) ==
    Only({IF levels = <<>>
          THEN [st |-> st, pk |-> NoPk, calls |-> 0, failed |-> 0]
          ELSE CategoryWalkSource(st, levels, 1, NoPk, downAt) :
            levels \in {category_levels(category_string)}})

\* source/utils/csv_processing.py process_database_file(api, filename).  Line
\* 49 unpacks the result of resolve_category_string into (category_pk,
\* error_code); the function returns an int or None, so the unpacking raises
\* TypeError on the first row, outside every try, and lines 50-72 are never
\* reached.  A file without rows goes straight to resolve_pending_relations.
\* downAt: the level of the first row's category during which the store is down
process_database_file_source(st, pending, file, unreadable, downAt, partListFails) ==
    IF unreadable
    THEN [st |-> st, pending |-> pending, error |-> FILE_ERROR, raised |-> FALSE]
    ELSE IF file = <<>>
         THEN Only({[st |-> r.st, pending |-> r.pending,
                     error |-> IF r.raised THEN RELATIONS_ERROR ELSE SUCCESS,
                     raised |-> FALSE] :
                     r \in {resolve_pending_relations_source(st, pending, partListFails,
                                                             "none", 1)}})
         ELSE Only({[st |-> c.st, pending |-> pending, error |-> SUCCESS, raised |-> TRUE] :
                     c \in {resolve_category_string_source(
                                st, JoinLevels(<<file[1].CATEGORY, file[1].TYPE>>), downAt)}})

\* a call of resolve_category_string of source/
ResolveCategoryStringSource ==
    \E category_string \in CategoryStrings :
    \E downAt \in DownAt :
    \E r \in {resolve_category_string_source(State, category_string, downAt)} :
           /\ Len(r.st.api_db["PartCategory"]) - Len(upstream["PartCategory"]) <= MaxCategories
           /\ Apply(r.st)
           /\ last' = [NoOp EXCEPT !.op = "resolve_category_string", !.path = category_string,
                                   !.pk = r.pk, !.calls = r.calls, !.failed = r.failed]
           /\ UNCHANGED <<resolvers, upstream, CSV_DB_WRITER_IS_ACTIVE, csv_output,
                          _pending_relations, PART_ROWS, CURRENT_HIGHEST_PK>>

\* a call of process_database_file of source/
ProcessDatabaseFileSource ==
    \E file \in Files, unreadable \in BOOLEAN, downAt \in DownAt, partListFails \in BOOLEAN :
    \E r \in {process_database_file_source(State, _pending_relations, file, unreadable,
                                            downAt, partListFails)} :
        /\ unreadable => downAt = 0 /\ ~partListFails
        /\ file = <<>> => downAt = 0
        /\ file # <<>> => ~partListFails
        /\ Apply(r.st)
        /\ _pending_relations' = r.pending
        /\ last' = [NoOp EXCEPT !.op = "process_database_file", !.file = file,
                                !.error = r.error, !.raised = r.raised,
                                !.fault = IF unreadable THEN "read"
                                          ELSE IF downAt # 0 \/ partListFails THEN "list"
                                          ELSE "none"]
        /\ UNCHANGED <<resolvers, upstream, CSV_DB_WRITER_IS_ACTIVE, csv_output, PART_ROWS,
                       CURRENT_HIGHEST_PK>>

\* source/main.py lines 102-105: the loop over the database files of the
\* directory from file idx on.  There is no try around the call and the value
\* process_database_file returns is dropped: an exception leaves the loop and
\* main.  badFile: the file on which the fault acts (0: none).  calls: the
\* calls of process_database_file that were made
RECURSIVE main_source(_, _, _, _, _, _, _)
main_source(st, pending, batch, idx, badFile, unreadable, downAt) ==
    IF idx > Len(batch)
    THEN [st |-> st, pending |-> pending, calls |-> idx - 1, raised |-> FALSE]
    ELSE Only({
        IF r.raised
        THEN [st |-> r.st, pending |-> r.pending, calls |-> idx, raised |-> TRUE]
        ELSE main_source(r.st, r.pending, batch, idx + 1, badFile, unreadable, downAt) :
            r \in {process_database_file_source(st, pending, batch[idx],
                                                 idx = badFile /\ unreadable,
                                                 IF idx = badFile THEN downAt ELSE 0, FALSE)}})

\* the directories: up to MaxBatch database files of at most one row
Batches == UNION {[1..n -> {file \in Files : Len(file) <= 1}] : n \in 1..MaxBatch}

\* a run of main of source/ over the database files of a directory
MainSource ==
    \E batch \in Batches, badFile \in 0..MaxBatch, unreadable \in BOOLEAN, downAt \in DownAt :
    \E r \in {main_source(State, _pending_relations, batch, 1, badFile, unreadable, downAt)} :
        /\ badFile <= Len(batch)
        /\ badFile = 0 => ~unreadable /\ downAt = 0
        /\ badFile # 0 => (unreadable /\ downAt = 0) \/ (~unreadable /\ downAt # 0)
        /\ badFile # 0 /\ ~unreadable => batch[badFile] # <<>>
        /\ Apply(r.st)
        /\ _pending_relations' = r.pending
        /\ last' = [NoOp EXCEPT !.op = "main", !.batch = batch, !.calls = r.calls,
                                !.raised = r.raised,
                                !.fault = IF badFile = 0 THEN "none"
                                          ELSE IF unreadable THEN "read" ELSE "list"]
        /\ UNCHANGED <<resolvers, upstream, CSV_DB_WRITER_IS_ACTIVE, csv_output, PART_ROWS,
                       CURRENT_HIGHEST_PK>>

----------------------------------------------------------------------------
(* The cache called directly *)

\* the keys argument of populate: None (every kind), one kind (refresh), two kinds
PopulateKeys == {KindOrder, <<"Part">>, <<"Company">>, <<"PartCategory", "Part">>}

\* the kind whose list call raises during a populate
PopulateFailKinds == {NoKind, "Part", "PartCategory"}

\* the chunk_size argument of populate
ChunkSizes == {1, chunk_size}

\* EntityCache.populate(api, keys, chunk_size)
Populate ==
    \E keys \in PopulateKeys, failKind \in PopulateFailKinds, limit \in ChunkSizes :
        /\ entity_cache' = populate(entity_cache, api_db, keys, limit, failKind)
        /\ last' = [NoOp EXCEPT !.op = "populate", !.keys = keys, !.kind = failKind,
                                !.before = entity_cache, !.limit = limit,
                                !.list_calls = populate_list_calls(api_db, keys, limit, failKind),
                                !.offsets = [K \in {keys[i] : i \in 1..Len(keys)} \ {failKind} |->
                                                ListOffsets(api_db[K], limit, 0)]]
        /\ UNCHANGED <<resolvers, caches, api_db, upstream, CSV_DB_WRITER_IS_ACTIVE, id_counters_fetched,
                       ID_UPPER_LIMIT, DB_ROWS, csv_output, returned,
                       _pending_relations, PART_ROWS, CURRENT_HIGHEST_PK>>

\* the kinds, pks and identifier values EntityCache.add is called with
AddKinds == {"Company", "Part"}

AddPks == {1, 2}

\* EntityCache.add(entity_cls, pk, data)
EntityCacheAdd ==
    \E K \in AddKinds, pk \in AddPks :
    \E data \in {BasePayload(K), [BasePayload(K) EXCEPT ![LastField(K)] = AltValue(LastField(K))]} :
        /\ entity_cache' = [entity_cache EXCEPT ![K] = add(@, K, pk, data)]
        /\ last' = [NoOp EXCEPT !.op = "add", !.kind = K, !.pk = pk, !.data = data,
                                !.key = EntityCache_key(K, data)]
        /\ UNCHANGED <<resolvers, caches, api_db, upstream, CSV_DB_WRITER_IS_ACTIVE, id_counters_fetched,
                       ID_UPPER_LIMIT, DB_ROWS, csv_output, returned,
                       _pending_relations, PART_ROWS, CURRENT_HIGHEST_PK>>

\* the page sizes of a populate of one kind
PageSizes == {1, 2, chunk_size}

\* EntityCache.populate(api, [entity_cls], chunk_size); with the default
\* chunk_size it is EntityCache.refresh(api, entity_cls)
PopulateKind ==
    \E K \in AddKinds, limit \in PageSizes :
        /\ entity_cache' = populate(entity_cache, api_db, <<K>>, limit, NoKind)
        /\ last' = [NoOp EXCEPT !.op = "populate", !.keys = <<K>>, !.kind = NoKind,
                                !.before = entity_cache, !.limit = limit,
                                !.list_calls = populate_list_calls(api_db, <<K>>, limit, NoKind),
                                !.offsets = [k \in {K} |-> ListOffsets(api_db[K], limit, 0)]]
        /\ UNCHANGED <<resolvers, caches, api_db, upstream, CSV_DB_WRITER_IS_ACTIVE,
                       id_counters_fetched, ID_UPPER_LIMIT, DB_ROWS, csv_output, returned,
                       _pending_relations, PART_ROWS, CURRENT_HIGHEST_PK>>

\* another client of the live store creates a company: the store holds
\* instances the process did not create, two of them can have one name
StoreCreate ==
    \E data \in WriterPayloads("Company") :
    \E r \in {ApiCreate(api_db, "Company", data)} :
        /\ Len(r.db["Company"]) <= MaxInstances
        /\ api_db' = r.db
        /\ last' = [NoOp EXCEPT !.op = "store_create", !.kind = "Company", !.data = data,
                                !.pk = r.pk]
        /\ UNCHANGED <<resolvers, caches, upstream, CSV_DB_WRITER_IS_ACTIVE, id_counters_fetched,
                       ID_UPPER_LIMIT, DB_ROWS, csv_output, entity_cache, returned,
                       _pending_relations, PART_ROWS, CURRENT_HIGHEST_PK>>

\* EntityCache.find_by_identifiers(entity_cls, identifiers)
FindByIdentifiers ==
    \E K \in AddKinds : \E identifiers \in Payloads(K) :
        /\ last' = [NoOp EXCEPT !.op = "find_by_identifiers", !.kind = K,
                                !.data = identifiers,
                                !.key = EntityCache_key(K, identifiers),
                                !.pk = find_by_identifiers(entity_cache, K, identifiers)]
        /\ UNCHANGED <<resolvers, caches, api_db, upstream, CSV_DB_WRITER_IS_ACTIVE, id_counters_fetched,
                       ID_UPPER_LIMIT, DB_ROWS, csv_output, entity_cache, returned,
                       _pending_relations, PART_ROWS, CURRENT_HIGHEST_PK>>

----------------------------------------------------------------------------
(* scripts/utils/value_parser.py: parse_parameter_value                     *)
(* A value is a sequence of one-character strings, the float NaN of a       *)
(* missing cell, or None.  A float is <<"float", sign, m, e>>, the decimal   *)
(* m * 10^e with m without trailing zeros: every factor of the function is  *)
(* a power of ten, and the binary rounding of a float, which is below the   *)
(* ten digits of the display, is not modelled.                              *)

FloatNaN == <<"float", "nan">>

\* pd.isna(value_str)
pd_isna(v) == v = FloatNaN \/ v = None

DigitChars == {Digits[i] : i \in 1..Len(Digits)}

\* [A-Za-zΩ°%]
UnitChars ==
    {Uppers[i] : i \in 1..Len(Uppers)} \cup {Lowers[i] : i \in 1..Len(Lowers)}
        \cup {"Ω", "°", "%"}

\* si_prefixes: the decimal exponent of each prefix
si_prefixes ==
    ("T" :> 12) @@ ("G" :> 9) @@ ("M" :> 6) @@ ("k" :> 3) @@ ("K" :> 3) @@ ("m" :> -3)
    @@ ("μ" :> -6) @@ ("u" :> -6) @@ ("n" :> -9) @@ ("p" :> -12) @@ ("f" :> -15)

\* unit_factors: the decimal exponent of each factor; the key "" is the
\* generic unit
unit_factors ==
    ("m" :> 0) @@ ("mm" :> -3) @@ ("cm" :> -2) @@ ("um" :> -6) @@ ("μm" :> -6)
    @@ ("F" :> 0) @@ ("nF" :> -9) @@ ("uF" :> -6) @@ ("μF" :> -6) @@ ("pF" :> -12)
    @@ ("Ω" :> 0) @@ ("kΩ" :> 3) @@ ("MΩ" :> 6)
    @@ ("H" :> 0) @@ ("mH" :> -3) @@ ("uH" :> -6) @@ ("μH" :> -6) @@ ("" :> 0)

\* the character at position i, "" past the end
At(cs, i) == IF i \in 1..Len(cs) THEN cs[i] ELSE ""

\* the first position from i on whose character is not in C
RECURSIVE SpanEnd(_, _, _)
SpanEnd(cs, i, C) == IF At(cs, i) \in C THEN SpanEnd(cs, i + 1, C) ELSE i

\* re.sub(r"^-\s+(\d)", r"-\1", value_str)
minus_space(cs) ==
    IF At(cs, 1) = "-" /\ At(cs, 2) \in Whitespace
           /\ At(cs, SpanEnd(cs, 2, Whitespace)) \in DigitChars
    THEN <<"-">> \o SubSeq(cs, SpanEnd(cs, 2, Whitespace), Len(cs))
    ELSE cs

\* the position after (?:\d+\.?\d*|\.\d+) matched from position i, 0 when it
\* does not match
MantissaEnd(cs, i) ==
    IF At(cs, i) \in DigitChars
    THEN Only({SpanEnd(cs, IF At(cs, d) = "." THEN d + 1 ELSE d, DigitChars) :
                d \in {SpanEnd(cs, i, DigitChars)}})
    ELSE IF At(cs, i) = "." /\ At(cs, i + 1) \in DigitChars
         THEN SpanEnd(cs, i + 1, DigitChars)
         ELSE 0

\* the position after (?:[eE][+-]?\d+)? matched from position i
ExponentEnd(cs, i) ==
    IF At(cs, i) \in {"e", "E"}
    THEN Only({IF At(cs, j) \in DigitChars THEN SpanEnd(cs, j, DigitChars) ELSE i :
                j \in {IF At(cs, i + 1) \in {"+", "-"} THEN i + 2 ELSE i + 1}})
    ELSE i

\* the position after ^([+-]?(?:\d+\.?\d*|\.\d+)(?:[eE][+-]?\d+)?), 0 when
\* the string does not start with a number
NumberEnd(cs) ==
    Only({IF m = 0 THEN 0 ELSE ExponentEnd(cs, m) :
            m \in {MantissaEnd(cs, IF At(cs, 1) \in {"+", "-"} THEN 2 ELSE 1)}})

\* int() of a sequence of digits, 0 for no digits
RECURSIVE DigitsValue(_)
DigitsValue(cs) ==
    IF cs = <<>> THEN 0
    ELSE 10 * DigitsValue(SubSeq(cs, 1, Len(cs) - 1))
            + (CHOOSE d \in 0..9 : Digits[d + 1] = cs[Len(cs)])

\* the float m * 10^e, m without trailing zeros
RECURSIVE Float(_, _, _)
Float(sign, m, e) ==
    IF m = 0 THEN <<"float", sign, 0, 0>>
    ELSE IF m % 10 = 0 THEN Float(sign, m \div 10, e + 1)
         ELSE <<"float", sign, m, e>>

\* float(text) of a text the number pattern matched
float(cs) ==
    LET first == IF At(cs, 1) \in {"+", "-"} THEN 2 ELSE 1
        int_end == SpanEnd(cs, first, DigitChars)
        frac_start == IF At(cs, int_end) = "." THEN int_end + 1 ELSE int_end
        frac_end == SpanEnd(cs, frac_start, DigitChars)
        exp_sign == IF At(cs, frac_end + 1) \in {"+", "-"} THEN frac_end + 2 ELSE frac_end + 1
        exponent == IF frac_end > Len(cs) THEN 0
                    ELSE IF At(cs, frac_end + 1) = "-"
                         THEN 0 - DigitsValue(SubSeq(cs, exp_sign, Len(cs)))
                         ELSE DigitsValue(SubSeq(cs, exp_sign, Len(cs)))
    IN Float(IF At(cs, 1) = "-" THEN "-" ELSE "",
             DigitsValue(SubSeq(cs, first, int_end - 1) \o SubSeq(cs, frac_start, frac_end - 1)),
             exponent - (frac_end - frac_start))

\* x * 10^k
Scale(x, k) == Float(x[2], x[3], x[4] + k)

\* the characters of a string of digits
RECURSIVE NatChars(_)
NatChars(n) ==
    IF n < 10 THEN <<Digits[n + 1]>> ELSE NatChars(n \div 10) \o <<Digits[(n % 10) + 1]>>

Zeros(n) == [i \in 1..n |-> "0"]

\* f"{numeric_value:.10g}" of a float of at most ten digits: fixed notation
\* when the decimal exponent X of the first digit is in -4..9, else d.ddde+XX
format_10g(x) ==
    LET D == NatChars(x[3])
        X == Len(D) - 1 + x[4]
        sign == IF x[2] = "-" THEN <<"-">> ELSE <<>>
        XX == IF X < 0 THEN 0 - X ELSE X
    IN sign \o
       (IF x[3] = 0 THEN <<"0">>
        ELSE IF X >= -4 /\ X < 10
        THEN IF x[4] >= 0 THEN D \o Zeros(x[4])
             ELSE IF X >= 0 THEN SubSeq(D, 1, X + 1) \o <<".">> \o SubSeq(D, X + 2, Len(D))
                  ELSE <<"0", ".">> \o Zeros(0 - X - 1) \o D
        ELSE <<D[1]>> \o (IF Len(D) > 1 THEN <<".">> \o Tail(D) ELSE <<>>)
                \o <<"e", IF X < 0 THEN "-" ELSE "+">>
                \o (IF XX < 10 THEN <<"0">> ELSE <<>>) \o NatChars(XX))

\* lines 74-99: the value of a string the pattern matched, number the text of
\* group 1, prefix group 2 and unit_part group 3
Matched(value_str, unit, number, prefix, unit_part) ==
    Only({
        IF unit # "" /\ unit # unit_part /\ unit_part # ""
        THEN IF (prefix \o unit_part) \in DOMAIN unit_factors /\ unit \in DOMAIN unit_factors
             THEN Only({[display |-> format_10g(converted), numeric |-> converted] :
                         converted \in {Scale(numeric_value,
                                              (IF unit_part \in DOMAIN unit_factors
                                               THEN unit_factors[unit_part] ELSE 0)
                                              - unit_factors[unit])}})
             ELSE [display |-> value_str, numeric |-> None]
        ELSE [display |-> format_10g(numeric_value), numeric |-> numeric_value] :
            numeric_value \in {Scale(float(number),
                                     IF prefix \in DOMAIN si_prefixes THEN si_prefixes[prefix]
                                     ELSE 0)}})

\* lines 59-72 and 74-99: the match of the pattern
\* number \s* [μumkKMGTnpf]? [A-Za-zΩ°%]* $, and without it the number the
\* string starts with
Parsed(value_str, unit) ==
    Only({
        IF n = 0 THEN [display |-> value_str, numeric |-> None]
        ELSE Only({
            IF SpanEnd(value_str, IF At(value_str, w) \in DOMAIN si_prefixes THEN w + 1 ELSE w,
                       UnitChars) = Len(value_str) + 1
            THEN Matched(value_str, unit, SubSeq(value_str, 1, n - 1),
                         IF At(value_str, w) \in DOMAIN si_prefixes THEN At(value_str, w) ELSE "",
                         Text(SubSeq(value_str,
                                     IF At(value_str, w) \in DOMAIN si_prefixes THEN w + 1 ELSE w,
                                     Len(value_str))))
            ELSE [display |-> SubSeq(value_str, 1, n - 1),
                  numeric |-> float(SubSeq(value_str, 1, n - 1))] :
                w \in {SpanEnd(value_str, n, Whitespace)}}) :
            n \in {NumberEnd(value_str)}})

\* parse_parameter_value that tests the unit before the blank value
parse_parameter_value_unit_first(value_str, unit) ==
    IF unit = "str" /\ ~pd_isna(value_str)
    THEN [display |-> Strip(value_str), numeric |-> None]
    ELSE IF pd_isna(value_str) \/ Strip(value_str) = <<>>
         THEN [display |-> <<"-">>, numeric |-> None]
         ELSE Parsed(minus_space(Strip(value_str)), unit)

\* parse_parameter_value(value_str, unit) -> (display_value, numeric_value)
parse_parameter_value(value_str, unit) ==
    IF pd_isna(value_str) \/ Strip(value_str) = <<>>
    THEN [display |-> <<"-">>, numeric |-> None]
    ELSE IF unit = "str"
         THEN [display |-> Strip(value_str), numeric |-> None]
         ELSE Parsed(minus_space(Strip(value_str)), unit)

\* the length of the values that are enumerated
MaxValueLen == 3

ValueChars == {"4", ".", " ", "n", "F", "e"}

\* the values: a missing cell, None, every short string, and the examples of
\* the docstring
Values ==
    {FloatNaN, None}
        \cup UNION {[1..n -> ValueChars] : n \in 0..MaxValueLen}
        \cup {<<"4", ".", "7", " ", "n", "F">>, <<"1", ".", "2", " ", "k", "Ω">>,
              <<"0", ".", "5", " ", "m", "m">>, <<"1", "0", "0">>,
              <<"3", ".", "3", "e", "-", "6">>, <<"6", "5", " ", "°", "C">>,
              <<"-", " ", "6", "5", " ", "°", "C">>, <<" ", "a", "s", "d", "f", " ">>}

Units == {"", "str", "F", "Ω", "mm", "m", "°C"}

\* a call of parse_parameter_value.  The function reads and writes no state:
\* the call of one value and unit is the same wherever it is made, so each
\* behaviour makes one call
ParseParameterValue ==
    \E value_str \in Values, unit \in Units :
    \E r \in {parse_parameter_value(value_str, unit)} :
        /\ last.op = "init"
        /\ last' = [NoOp EXCEPT !.op = "parse_parameter_value", !.value = value_str,
                                !.unit = unit, !.display = r.display, !.numeric = r.numeric]
        /\ UNCHANGED <<resolvers, caches, api_db, upstream, CSV_DB_WRITER_IS_ACTIVE, id_counters_fetched,
                       ID_UPPER_LIMIT, DB_ROWS, csv_output, entity_cache, returned,
                       _pending_relations, PART_ROWS, CURRENT_HIGHEST_PK>>

----------------------------------------------------------------------------
(* resolve_entity run by concurrent callers.  The callers share the module's *)
(* caches and the backing store; a caller can be overtaken at each call of   *)
(* the backing store: before entity_type.list and before the create.         *)

\* lines 94-102: the caller enters resolve_entity and looks in the cache; a
\* hit returns, a miss goes on to the list call.  locked: the path from the
\* miss to the cache insert is a critical section per kind, entered only when
\* no other caller is inside it for the kind
ResolverLookup(p, locked) ==
    \E K \in ResolveKinds : \E data \in Payloads(K) :
    \E key \in {composite_key(K, data)} :
        /\ resolvers[p].pc = "idle"
        /\ locked => \A q \in Procs \ {p} :
                        ~(resolvers[q].pc \in {"list", "create"} /\ resolvers[q].kind = K)
        /\ IF DictGet(caches[K], key) # NoPk
           THEN \E r \in {Outcome(State, DictGet(caches[K], key), K, data, key,
                                   TRUE, "none", "none", FALSE)} :
                   /\ Apply(r.st)
                   /\ resolvers' = [resolvers EXCEPT ![p] =
                                       [pc |-> "done", kind |-> K, data |-> data, key |-> key,
                                        pk |-> r.pk, created |-> FALSE]]
           ELSE /\ resolvers' = [resolvers EXCEPT ![p] =
                                    [pc |-> "list", kind |-> K, data |-> data, key |-> key,
                                     pk |-> NoPk, created |-> FALSE]]
                /\ UNCHANGED <<caches, api_db, id_counters_fetched, ID_UPPER_LIMIT, DB_ROWS,
                               entity_cache, returned>>
        /\ last' = [NoOp EXCEPT !.op = "resolver_lookup", !.kind = K, !.data = data, !.key = key]
        /\ UNCHANGED <<upstream, CSV_DB_WRITER_IS_ACTIVE, csv_output, _pending_relations,
                       PART_ROWS, CURRENT_HIGHEST_PK>>

\* callers that enter resolve_entity with nothing guarding the call
ResolverEnter == \E p \in Procs : ResolverLookup(p, FALSE)

\* callers that enter resolve_entity under the lock of the kind
ResolverEnterLocked == \E p \in Procs : ResolverLookup(p, TRUE)

\* lines 104-120: the list call, the cache update and the second look in the
\* cache; a failed list call ends the call with None
ResolverList ==
    \E p \in {q \in Procs : resolvers[q].pc = "list"} : \E listFails \in BOOLEAN :
    \E c \in {resolvers[p]} :
        /\ IF listFails
           THEN /\ resolvers' = [resolvers EXCEPT ![p].pc = "done"]
                /\ UNCHANGED <<caches, api_db, id_counters_fetched, ID_UPPER_LIMIT, DB_ROWS,
                               entity_cache, returned>>
           ELSE \E st1 \in {[State EXCEPT !.caches[c.kind] =
                                  DictUpdate(@, EntityDict(c.kind, api_db[c.kind]))]} :
                   IF DictGet(st1.caches[c.kind], c.key) # NoPk
                   THEN \E r \in {Outcome(st1, DictGet(st1.caches[c.kind], c.key), c.kind,
                                           c.data, c.key, FALSE, "ok", "none", FALSE)} :
                           /\ Apply(r.st)
                           /\ resolvers' = [resolvers EXCEPT ![p].pc = "done", ![p].pk = r.pk]
                   ELSE /\ Apply(st1)
                        /\ resolvers' = [resolvers EXCEPT ![p].pc = "create"]
        /\ last' = [NoOp EXCEPT !.op = "resolver_list", !.kind = c.kind, !.data = c.data,
                                !.key = c.key]
        /\ UNCHANGED <<upstream, CSV_DB_WRITER_IS_ACTIVE, csv_output, _pending_relations,
                       PART_ROWS, CURRENT_HIGHEST_PK>>

\* lines 125-143: the create through the writer or the API, the cache insert
\* of the API branch, the return
ResolverCreate ==
    \E p \in {q \in Procs : resolvers[q].pc = "create"} :
    \E createFails \in BOOLEAN, failKind \in PopulateFaults :
    \E c \in {resolvers[p]} :
    \E r \in {CreateNew(State, CSV_DB_WRITER_IS_ACTIVE, c.kind, c.data, c.key,
                         createFails, failKind)} :
        /\ Created(r.st) <= MaxCreates
        /\ Apply(r.st)
        /\ resolvers' = [resolvers EXCEPT ![p].pc = "done", ![p].pk = r.pk,
                                          ![p].created = Created(r.st) > Created(State)]
        /\ last' = [NoOp EXCEPT !.op = "resolver_create", !.kind = c.kind, !.data = c.data,
                                !.key = c.key, !.pk = r.pk, !.api_create = r.api_create,
                                !.writer_create = r.writer_create]
        /\ UNCHANGED <<upstream, CSV_DB_WRITER_IS_ACTIVE, csv_output, _pending_relations,
                       PART_ROWS, CURRENT_HIGHEST_PK>>

----------------------------------------------------------------------------
(* part_creation.py: create_suppliers_and_manufacturers *)
(* A row has the cells MANUFACTURER, MPN, SUPPLIER1 and SKU1.              *)

\* the cells of the rows: a manufacturer, an MPN, one supplier column and its SKU
\* (cells that are never read are left empty)
LinkRows ==
    {row \in [MANUFACTURER : {FloatNaN, S("m")}, MPN : {None, S("a")},
              SUPPLIER1 : {FloatNaN, S("s")}, SKU1 : {None, S("x")}] :
        /\ pd_isna(row.MANUFACTURER) => pd_isna(row.MPN)
        /\ pd_isna(row.MPN) => pd_isna(row.SUPPLIER1)
        /\ pd_isna(row.SUPPLIER1) => pd_isna(row.SKU1)}

\* lines 349-373: the loop over the supplier columns, here SUPPLIER1.  downAt:
\* the resolve_entity call (counted from 1) during which the backing store is
\* unavailable
SupplierLoop(st, active, row, part_pk, downAt, failKind) ==
    IF pd_isna(row.SUPPLIER1) THEN [st |-> st, supplier |-> NoPk, supplier_part |-> NoPk]
    ELSE Only({IF s.pk = NoPk
               THEN [st |-> s.st, supplier |-> NoPk, supplier_part |-> NoPk]
               ELSE Only({[st |-> sp.st, supplier |-> s.pk, supplier_part |-> sp.pk] :
                           sp \in {resolve_entity(s.st, active, "SupplierPart",
                                                  [part |-> I(part_pk), supplier |-> I(s.pk),
                                                   SKU |-> row.SKU1],
                                                  downAt = 4, downAt = 4, failKind)}}) :
                s \in {resolve_entity(st, active, "Company",
                                      [name |-> row.SUPPLIER1, is_supplier |-> Bool(TRUE),
                                       is_manufacturer |-> Bool(FALSE)],
                                      downAt = 3, downAt = 3, failKind)}})

\* create_suppliers_and_manufacturers(api, row, part_pk, stock_location_pk)
\* -> error code.  resolve_entity raises nothing, so no except is entered
create_suppliers_and_manufacturers(st, active, row, part_pk, downAt, failKind) ==
    IF pd_isna(row.MANUFACTURER)
    THEN [st |-> st, error |-> SUCCESS, manufacturer |-> NoPk, manufacturer_part |-> NoPk,
          supplier |-> NoPk, supplier_part |-> NoPk]
    ELSE Only({IF m.pk = NoPk
               THEN [st |-> m.st, error |-> SUPPLIER_ERROR, manufacturer |-> NoPk,
                     manufacturer_part |-> NoPk, supplier |-> NoPk, supplier_part |-> NoPk]
               ELSE IF pd_isna(row.MPN) \/ row.MPN = S("")
                    THEN [st |-> m.st, error |-> SUCCESS, manufacturer |-> m.pk,
                          manufacturer_part |-> NoPk, supplier |-> NoPk,
                          supplier_part |-> NoPk]
                    ELSE Only({Only({[st |-> l.st, error |-> SUCCESS, manufacturer |-> m.pk,
                                      manufacturer_part |-> mp.pk, supplier |-> l.supplier,
                                      supplier_part |-> l.supplier_part] :
                                      l \in {SupplierLoop(mp.st, active, row, part_pk,
                                                          downAt, failKind)}}) :
                                mp \in {resolve_entity(m.st, active, "ManufacturerPart",
                                                       [part |-> I(part_pk),
                                                        manufacturer |-> I(m.pk),
                                                        MPN |-> row.MPN],
                                                       downAt = 2, downAt = 2, failKind)}}) :
                m \in {resolve_entity(st, active, "Company",
                                      [name |-> row.MANUFACTURER, is_supplier |-> Bool(FALSE),
                                       is_manufacturer |-> Bool(TRUE)],
                                      downAt = 1, downAt = 1, failKind)}})

\* the links of a kind, live and shadow
LinkCount(st, K) == Len(st.api_db[K]) + Len(st.rows[WriterTable[K]])

\* a call of create_suppliers_and_manufacturers for a row of the part part_pk
CreateSuppliersAndManufacturers ==
    \E row \in LinkRows, part_pk \in RelationPks, downAt \in 0..4,
       failKind \in PopulateFaults :
    \E r \in {create_suppliers_and_manufacturers(State, CSV_DB_WRITER_IS_ACTIVE, row,
                                                 part_pk, downAt, failKind)} :
        /\ LinkCount(r.st, "ManufacturerPart") + LinkCount(r.st, "SupplierPart") <= MaxCreates
        /\ Apply(r.st)
        /\ last' = [NoOp EXCEPT !.op = "create_suppliers_and_manufacturers",
                                !.data = row, !.pk = part_pk, !.error = r.error,
                                !.failed = downAt, !.kind = failKind,
                                !.pks = <<r.manufacturer, r.manufacturer_part,
                                          r.supplier, r.supplier_part>>]
        /\ UNCHANGED <<resolvers, upstream, CSV_DB_WRITER_IS_ACTIVE, csv_output,
                       _pending_relations, PART_ROWS, CURRENT_HIGHEST_PK>>

Next == ResolveEntity \/ set_active

Spec == Init /\ [][Next]_vars

\* create_part row after row, with the counter of the part pks set from the
\* store in between
NextBulk == CreatePart \/ SetBulkModeFromApi

SpecBulk == Init /\ [][NextBulk]_vars

\* the links of the rows, in either mode
NextLinks == CreateSuppliersAndManufacturers \/ set_active

SpecLinks == Init /\ [][NextLinks]_vars

\* two callers of resolve_entity, overtaking each other at the backing-store calls
NextRace == ResolverEnter \/ ResolverList \/ ResolverCreate \/ set_active

SpecRace == Init /\ [][NextRace]_vars

\* two callers of resolve_entity, the path from the miss to the insert under a lock
NextRaceLocked == ResolverEnterLocked \/ ResolverList \/ ResolverCreate \/ set_active

SpecRaceLocked == Init /\ [][NextRaceLocked]_vars

\* the pipeline of scripts/ on files longer than the loop takes
NextLongFile == ProcessLongFile \/ set_active

SpecLongFile == Init /\ [][NextLongFile]_vars

\* populate over a store that other clients fill
NextPopulate == PopulateKind \/ EntityCacheAdd \/ StoreCreate

SpecPopulate == Init /\ [][NextPopulate]_vars

\* the resolver called for registered and unregistered kinds, in either mode
NextKinds == ResolveEntity \/ ResolveUnregistered \/ set_active

SpecKinds == Init /\ [][NextKinds]_vars

\* the value parser called on every value and unit
NextParser == ParseParameterValue

SpecParser == Init /\ [][NextParser]_vars

\* the process as shipped: the writer is never switched on
NextLive == ResolveEntity

SpecLive == Init /\ [][NextLive]_vars

\* the category walks of a run, in either mode
NextCategory == ResolveCategoryString \/ set_active

SpecCategory == Init /\ [][NextCategory]_vars

\* the shadow writer called directly
NextWriter == CsvDbWriterCreate \/ WriteAllDbCsv

SpecWriter == Init /\ [][NextWriter]_vars

\* the ledger of scripts/ in a run that also resolves manufacturers
NextRelations ==
    AddPendingRelation \/ ResolvePendingRelations \/ ResolveManufacturer \/ set_active

SpecRelations == Init /\ [][NextRelations]_vars

\* the ledger of source/, which has no shadow writer
NextRelationsSource == AddPendingRelationSource \/ ResolvePendingRelationsSource

SpecRelationsSource == Init /\ [][NextRelationsSource]_vars

\* the batch of scripts/: files processed one after the other
NextPipeline == ProcessDatabaseFile \/ set_active

SpecPipeline == Init /\ [][NextPipeline]_vars

\* the cache as a component: populate, add and find_by_identifiers called in
\* any order
NextCache == Populate \/ EntityCacheAdd \/ FindByIdentifiers

SpecCache == Init /\ [][NextCache]_vars

\* the category walks of source/
NextCategorySource == ResolveCategoryStringSource

SpecCategorySource == Init /\ [][NextCategorySource]_vars

\* the batch of source/: files processed one after the other
NextSource == ProcessDatabaseFileSource \/ MainSource

SpecSource == Init /\ [][NextSource]_vars


----------------------------------------------------------------------------
(* Properties of resolve_entity *)

\* the payload carries every identifier field of the kind
Full(K, data) == FieldSet(K) \subseteq DOMAIN data

\* the entities of kind K the run has created in the live store
CreatedEntities(K) == {api_db[K][i] : i \in (Len(upstream[K]) + 1)..Len(api_db[K])}

\* the pks resolve_entity has returned for these identifier values
ReturnedPks(K, ident) == {t[3] : t \in {u \in returned : u[1] = K /\ u[2] = ident}}

\* C1: in live-API mode, all resolves of payloads with the same identifier
\* values return one pk, that pk names an entity of the store, and exactly
\* one create for these values has reached the store (none when the pk is
\* that of an entity the store held before the run)
C1_IdempotentLive ==
    \A t \in returned :
        LET K == t[1]
            made == {e \in CreatedEntities(K) : Ident(K, e.data) = t[2]}
        IN /\ ReturnedPks(K, t[2]) = {t[3]}
           /\ \E i \in 1..Len(api_db[K]) : api_db[K][i].pk = t[3]
           /\ IF t[3] <= Len(upstream[K])
              THEN made = {}
              ELSE Cardinality(made) = 1 /\ \A e \in made : e.pk = t[3]

\* C1 witness: a key created by the run has been resolved again from the cache
C1_Witness ==
    /\ ~CSV_DB_WRITER_IS_ACTIVE
    /\ last.op = "resolve_entity" /\ last.hit
    /\ Full(last.kind, last.data) /\ "description" \in DOMAIN last.data
    /\ last.pk > Len(upstream[last.kind])
    /\ <<last.kind, Ident(last.kind, last.data), last.pk>> \in returned

\* C2: once a key has resolved to pk p, every later resolve of the key
\* returns p and creates nothing, in the live store or in the shadow rows
C2_StableKey ==
    [][(last'.op = "resolve_entity" /\ last'.pk # NoPk /\ Full(last'.kind, last'.data))
        => \A t \in returned :
              (t[1] = last'.kind /\ t[2] = Ident(last'.kind, last'.data))
                 => (last'.pk = t[3] /\ api_db' = api_db /\ DB_ROWS' = DB_ROWS)]_vars

\* the identifier values of a shadow row, read from its columns
RowIdent(t, row) ==
    [f \in DOMAIN IdColumn[t] |-> Str(row.cols[IdColumn[t][f]])]

\* C3: with the writer active, every resolve of a composite key returns the
\* same synthetic pk and the key has at most one shadow row
C3_OneShadowRowPerKey ==
    CSV_DB_WRITER_IS_ACTIVE =>
        \A t \in returned :
            (t[1] \in WriterKinds /\ DOMAIN t[2] = FieldSet(t[1])) =>
                LET tab == WriterTable[t[1]]
                IN /\ ReturnedPks(t[1], t[2]) = {t[3]}
                   /\ Cardinality({i \in 1..Len(DB_ROWS[tab]) :
                                      /\ DB_ROWS[tab][i].id \in ReturnedPks(t[1], t[2])
                                      /\ RowIdent(tab, DB_ROWS[tab][i]) = t[2]}) <= 1

\* the two payloads agree on every identifier field of K
SameIdentifiers(K, d1, d2) ==
    /\ Full(K, d1) /\ Full(K, d2)
    /\ \A f \in FieldSet(K) : d1[f] = d2[f]

\* the two payloads differ in a field that is not an identifier of K
OtherFieldsDiffer(K, d1, d2) ==
    \E f \in (DOMAIN d1 \cup DOMAIN d2) \ FieldSet(K) :
        \/ f \notin DOMAIN d1
        \/ f \notin DOMAIN d2
        \/ d1[f] # d2[f]

\* C4: when a resolve of P1 has created an entity and the next resolve is of
\* a payload P2 with the same identifier values and another non-identifier
\* field (and the store does not fail during it), it returns the same pk,
\* creates nothing and leaves the store as it is
C4_PayloadIgnored ==
    [][(/\ last.op = "resolve_entity" /\ last.pk # NoPk
        /\ (last.api_create = "ok" \/ last.writer_create)
        /\ last'.op = "resolve_entity" /\ last'.kind = last.kind
        /\ last'.listed # "failed"
        /\ SameIdentifiers(last.kind, last.data, last'.data)
        /\ OtherFieldsDiffer(last.kind, last.data, last'.data))
        => (/\ last'.pk = last.pk
            /\ last'.api_create = "none" /\ ~last'.writer_create
            /\ api_db' = api_db
            /\ DB_ROWS' = DB_ROWS)]_vars

\* C5: two payloads of one kind that carry all identifier fields and differ
\* in the string form of at least one of them resolve to two distinct pks
C5_DistinctKeysDistinctPks ==
    \A t1, t2 \in returned :
        (/\ t1[1] = t2[1]
         /\ DOMAIN t1[2] = FieldSet(t1[1]) /\ DOMAIN t2[2] = FieldSet(t2[1])
         /\ t1[2] # t2[2])
            => t1[3] # t2[3]

\* C6: a resolve whose payload lacks an identifier field fails before any
\* cache lookup, list or create call
C6_MissingIdentifierFails ==
    (last.op = "resolve_entity" /\ ~Full(last.kind, last.data))
        => (/\ last.pk = NoPk
            /\ ~last.hit
            /\ last.listed = "none"
            /\ last.api_create = "none"
            /\ ~last.writer_create)

\* C7: a resolve whose create call fails returns None and leaves no cache
\* entry for its key; the next resolve of the same payload misses the cache,
\* lists again and, when the list succeeds, attempts the create again
C7_FailedCreateNotCached ==
    [][/\ (last'.op = "resolve_entity" /\ last'.api_create = "failed")
            => (/\ last'.pk = NoPk
                /\ composite_key(last'.kind, last'.data) \notin DOMAIN caches'[last'.kind])
       /\ (/\ last.op = "resolve_entity" /\ last.api_create = "failed"
           /\ last'.op = "resolve_entity" /\ last'.kind = last.kind /\ last'.data = last.data)
            => (/\ ~last'.hit
                /\ last'.listed # "none"
                /\ last'.listed = "ok" => (last'.api_create # "none" \/ last'.writer_create))]_vars

\* C7 witness: the list succeeded, the create call failed, and the key is
\* not in the cache
C7_Witness ==
    /\ last.op = "resolve_entity" /\ last.api_create = "failed" /\ last.pk = NoPk
    /\ last.listed = "ok"
    /\ composite_key(last.kind, last.data) \notin DOMAIN caches[last.kind]

\* the pieces of a path between the slashes, trimmed
TrimmedSegments(path) ==
    LET pieces == Split(path) IN [i \in 1..Len(pieces) |-> Strip(pieces[i])]

\* a piece that names a category: not empty and not 'nan' after trimming
IsName(seg) == seg # <<>> /\ Lower(seg) # Nan

AllNames(path) == \A i \in 1..Len(TrimmedSegments(path)) : IsName(TrimmedSegments(path)[i])

NoNames(path) == \A i \in 1..Len(TrimmedSegments(path)) : ~IsName(TrimmedSegments(path)[i])

\* C8: a path of n names never is an invalid path; resolved without failure
\* on an empty store it creates exactly n categories, the first with parent
\* None, each next one with the pk of the one before as parent, structural
\* True for all but the last, and returns the pk of the last; a second
\* resolution of the same path right after it creates nothing and returns
\* the same pk, and in live-API mode it cannot fail
C8_CategoryPathRoundTrip ==
    [][(last'.op = "resolve_category_string" /\ AllNames(last'.path)) =>
        LET segs == TrimmedSegments(last'.path)
            n == Len(segs)
            cats == api_db'["PartCategory"]
            again == /\ last.op = "resolve_category_string" /\ last.path = last'.path
                     /\ last.error = SUCCESS
        IN /\ last'.error # INVALID_DATA
           /\ (api_db["PartCategory"] = <<>> /\ last'.error = SUCCESS) =>
                /\ Len(cats) = n
                /\ \A i \in 1..n :
                    /\ cats[i].pk = i
                    /\ GetAttr(cats[i], "name") = S(Text(segs[i]))
                    /\ GetAttr(cats[i], "parent") = (IF i = 1 THEN None ELSE I(cats[i - 1].pk))
                    /\ GetAttr(cats[i], "structural") = Bool(i < n)
                /\ last'.pk = cats[n].pk
                /\ last'.calls = n
           /\ (again /\ last'.error = SUCCESS) => (api_db' = api_db /\ last'.pk = last.pk)
           /\ (again /\ ~CSV_DB_WRITER_IS_ACTIVE) => last'.error = SUCCESS]_vars

\* C8 witness: the longest path of names has been resolved on a store that
\* was empty, and the store holds its categories
C8_Witness ==
    /\ last.op = "resolve_category_string" /\ last.error = SUCCESS
    /\ AllNames(last.path) /\ Len(TrimmedSegments(last.path)) = MaxSegments
    /\ upstream["PartCategory"] = <<>>
    /\ Len(api_db["PartCategory"]) = MaxSegments
    /\ last.pk = MaxSegments

\* C9: a path without a name fails with INVALID_DATA and calls resolve_entity
\* for no level, and no step creates a category whose name is empty or 'nan'
C9_InvalidPathCreatesNothing ==
    [][/\ (last'.op = "resolve_category_string" /\ NoNames(last'.path)) =>
            (/\ last'.error = INVALID_DATA /\ last'.pk = NoPk
             /\ last'.calls = 0
             /\ api_db' = api_db)
       /\ \A i \in (Len(api_db["PartCategory"]) + 1)..Len(api_db'["PartCategory"]) :
            GetAttr(api_db'["PartCategory"][i], "name") \notin {S(""), S("nan")}]_vars

\* C10: a create of a writer kind with the counter of its table at M returns
\* M + 1, leaves the counter at M + 1 and appends one row with that id to the
\* table's buffer, whatever was created for other tables before; it changes
\* no other counter or buffer; and a flush writes, for every table with
\* buffered rows, exactly the buffered rows
C10_ShadowPkMonotonic ==
    [][/\ (last'.op = "create" /\ last'.kind \in WriterKinds) =>
            LET t == WriterTable[last'.kind]
                M == ID_UPPER_LIMIT[t]
            IN /\ last'.pk = M + 1 /\ last'.error = SUCCESS
               /\ ID_UPPER_LIMIT'[t] = M + 1
               /\ Len(DB_ROWS'[t]) = Len(DB_ROWS[t]) + 1
               /\ SubSeq(DB_ROWS'[t], 1, Len(DB_ROWS[t])) = DB_ROWS[t]
               /\ DB_ROWS'[t][Len(DB_ROWS'[t])].id = M + 1
               /\ \A u \in Tables \ {t} :
                    ID_UPPER_LIMIT'[u] = ID_UPPER_LIMIT[u] /\ DB_ROWS'[u] = DB_ROWS[u]
       /\ (last'.op = "write_all_db_csv") =>
            /\ DB_ROWS' = DB_ROWS /\ ID_UPPER_LIMIT' = ID_UPPER_LIMIT
            /\ \A t \in Tables : DB_ROWS[t] # <<>> => csv_output'[t] = DB_ROWS[t]]_vars

\* C10 witness: two parts were created with a create for another table
\* somewhere in the run, and the flush has written them with ids 1 and 2
C10_Witness ==
    /\ last.op = "write_all_db_csv"
    /\ Len(DB_ROWS["part"]) = 2 /\ ID_UPPER_LIMIT["part"] = 2
    /\ \E u \in Tables \ {"part"} : DB_ROWS[u] # <<>>
    /\ csv_output["part"] = DB_ROWS["part"]
    /\ [i \in 1..2 |-> csv_output["part"][i].id] = <<1, 2>>

\* the largest pk of a sequence of entities, 0 for none
MaxPk(ents) == IF ents = <<>> THEN 0 ELSE CHOOSE m \in {ents[i].pk : i \in 1..Len(ents)} :
                                            \A i \in 1..Len(ents) : ents[i].pk <= m

\* C11: once the writer has fetched its counters, the counter of every table
\* is at least the largest pk the live store held for the table's kind, and
\* every shadow row has an id greater than every such pk
C11_NoUpstreamCollision ==
    \A t \in Tables :
        LET M == MaxPk(upstream[KindOfTable(t)])
        IN /\ id_counters_fetched => ID_UPPER_LIMIT[t] >= M
           /\ \A i \in 1..Len(DB_ROWS[t]) : DB_ROWS[t][i].id > M

\* C12: a flush writes no file for a table whose buffer is empty (the table
\* keeps what it had, and it never had a file), writes the buffered rows of
\* every table whose buffer is not empty, and changes no buffer and no counter
C12_EmptyFlushIsNoOp ==
    [][(last'.op = "write_all_db_csv") =>
          /\ \A t \in Tables :
                IF DB_ROWS[t] = <<>>
                THEN csv_output'[t] = csv_output[t] /\ csv_output'[t] = NoFile
                ELSE csv_output'[t] = DB_ROWS[t]
          /\ DB_ROWS' = DB_ROWS /\ ID_UPPER_LIMIT' = ID_UPPER_LIMIT]_vars

\* C12 witness: a flush ran with the part buffer filled and the parameter
\* buffer empty; the part file is written and there is no parameter file
C12_Witness ==
    /\ last.op = "write_all_db_csv"
    /\ DB_ROWS["part"] # <<>> /\ csv_output["part"] = DB_ROWS["part"]
    /\ \E t \in Tables : DB_ROWS[t] = <<>> /\ csv_output[t] = NoFile

----------------------------------------------------------------------------
(* Properties of the ledger of pending relations *)

\* the pks of the parts named name: live parts and shadow part rows
PartPks(name) ==
    {api_db["Part"][i].pk :
        i \in {j \in 1..Len(api_db["Part"]) : GetAttr(api_db["Part"][j], "name") = S(name)}}
    \cup {DB_ROWS["part"][i].id :
            i \in {j \in 1..Len(DB_ROWS["part"]) : DB_ROWS["part"][j].name = S(name)}}

\* the <<part_1, part_2>> of every relation: live relations, then shadow rows
RelationsOf(db, rows) ==
    [i \in 1..Len(db["PartRelated"]) |->
        <<GetAttr(db["PartRelated"][i], "part_1"), GetAttr(db["PartRelated"][i], "part_2")>>]
    \o [i \in 1..Len(rows["partrelated"]) |->
        <<rows["partrelated"][i].part_1_id, rows["partrelated"][i].part_2_id>>]

\* the relations the ledger asks for: one for every entry whose name names a part
Wanted ==
    {<<I(x[1][1]), I(x[2])>> :
        x \in {y \in {_pending_relations[i] : i \in 1..Len(_pending_relations)} \X (1..4) :
                    y[2] \in PartPks(y[1][2])}}

\* C13: a resolve_pending_relations during which no backing-store call fails
\* leaves exactly the relations there were plus one (part_1, pk of the named
\* part) for every ledger entry whose name names a part, each of them once,
\* and leaves the ledger empty
C13_PendingRelationsResolved ==
    [][(last'.op = "resolve_pending_relations" /\ last'.fault = "none") =>
          LET before == RelationsOf(api_db, DB_ROWS)
              after == RelationsOf(api_db', DB_ROWS')
          IN /\ {after[i] : i \in 1..Len(after)} =
                    {before[i] : i \in 1..Len(before)} \cup Wanted
             /\ \A w \in Wanted : Cardinality({i \in 1..Len(after) : after[i] = w}) = 1
             /\ _pending_relations' = <<>>]_vars

\* C14: add_pending_relation with an empty name returns INVALID_DATA and
\* leaves the ledger as it was; with a name it appends <<pk, name>> after the
\* entries there were and returns SUCCESS
C14_LedgerRecord ==
    [][(last'.op = "add_pending_relation") =>
          IF last'.name = ""
          THEN last'.error = INVALID_DATA /\ _pending_relations' = _pending_relations
          ELSE /\ _pending_relations' = Append(_pending_relations, <<last'.pk, last'.name>>)
               /\ last'.error = SUCCESS]_vars

\* C15: after every resolve_pending_relations, whatever failed during it, the
\* ledger is empty
C15_LedgerClearedAlways ==
    [][(last'.op = "resolve_pending_relations") => _pending_relations' = <<>>]_vars

----------------------------------------------------------------------------
(* Properties of the row pipeline *)

\* row i of the file names the part of row j in its RELATEDPARTS
Relates(file, i, j) ==
    \E k \in 1..Len(file[i].RELATEDPARTS) :
        Strip(file[i].RELATEDPARTS[k]) = Strip(file[j].NAME)

\* C16: when process_database_file has returned SUCCESS for a file in which
\* row i names the part of row j as a related part (j before or after i), a
\* relation (pk of the part of row i, pk of the part of row j) exists
C16_ForwardReferencesResolved ==
    (last.op = "process_database_file" /\ last.error = SUCCESS) =>
        \A i, j \in 1..Len(last.pks) :
            Relates(last.file, i, j) =>
                \E n \in 1..Len(RelationsOf(api_db, DB_ROWS)) :
                    RelationsOf(api_db, DB_ROWS)[n] = <<I(last.pks[i]), I(last.pks[j])>>

----------------------------------------------------------------------------
(* Properties of EntityCache.populate *)

\* the kinds of a sequence of keys
KeySet(keys) == {keys[i] : i \in 1..Len(keys)}

\* the map populate builds for a kind from the store
Fetched(K, limit) == PopulatePages(EmptyDict, K, api_db[K], limit, 0)

\* C17: when the list call of one requested kind fails during a populate,
\* every other requested kind, before or after it in the keys, is listed and
\* its cache holds every instance of the store
C17_PopulateFaultIsolated ==
    (last.op = "populate" /\ last.kind \in KeySet(last.keys)) =>
        \A K \in KeySet(last.keys) \ {last.kind} :
            /\ K \in DOMAIN last.list_calls
            /\ entity_cache[K] = Fetched(K, chunk_size)

\* C18: a populate during which no list call fails makes one list call for
\* every requested kind without instances in the store and leaves that kind's
\* cache an empty map, whatever it held before
C18_EmptyPopulateSafe ==
    (last.op = "populate" /\ last.kind = NoKind) =>
        \A K \in KeySet(last.keys) :
            api_db[K] = <<>> =>
                /\ last.list_calls[K] = 1
                /\ K \in DOMAIN entity_cache /\ entity_cache[K] = EmptyDict

\* C18 witness: a populate of a kind without instances whose cache held
\* entries before the call
C18_Witness ==
    /\ last.op = "populate" /\ last.kind = NoKind
    /\ \E K \in KeySet(last.keys) :
            /\ api_db[K] = <<>> /\ last.before[K] # EmptyDict
            /\ entity_cache[K] = EmptyDict /\ last.list_calls[K] = 1

----------------------------------------------------------------------------
(* Properties of the foreign keys and of the stages of a row *)

\* C19 (child categories): every category a resolve_category_string call
\* creates without a parent is named by the first level of the path; a later
\* level is never created with the None a failed level left behind
C19_NoDanglingParent ==
    [][(last'.op = "resolve_category_string") =>
          \A i \in (Len(api_db["PartCategory"]) + 1)..Len(api_db'["PartCategory"]) :
              GetAttr(api_db'["PartCategory"][i], "parent") = None =>
                  GetAttr(api_db'["PartCategory"][i], "name")
                      = S(Text(category_levels(last'.path)[1]))]_vars

\* the row has a name create_part accepts
Named(row) == Strip(row.NAME) # <<>> /\ row.NAME # Nan

C22_UnnamedRowSkipped ==
    (last.op = "process_database_file" /\ last.fault = "none") =>
        \A i \in 1..Len(last.file) :
            Named(last.file[i]) =>
                \E n \in 1..Len(PART_ROWS) : PART_ROWS[n].name = S(Text(last.file[i].NAME))

----------------------------------------------------------------------------
(* Properties of the paths through resolve_entity *)

\* C23: a resolve_entity for a kind without an entry in IDENTIFIER_LUT
\* returns None, makes no list call and no create call, does not call the
\* writer, and leaves every cache, the live store and the writer's rows and
\* counters as they were
C23_UnknownKindRejected ==
    [][(last'.op = "resolve_entity" /\ last'.kind \notin Kinds) =>
          /\ last'.pk = NoPk
          /\ last'.listed = "none" /\ last'.api_create = "none" /\ ~last'.writer_create
          /\ UNCHANGED <<caches, entity_cache, api_db, DB_ROWS, ID_UPPER_LIMIT,
                         id_counters_fetched, returned>>]_vars

\* an unregistered kind was refused while the writer was active, the Part
\* cache was filled and the list call would have failed
C23_Witness ==
    /\ last.op = "resolve_entity" /\ last.kind \in UnregisteredKinds
    /\ last.pk = NoPk /\ last.fault = "list"
    /\ CSV_DB_WRITER_IS_ACTIVE /\ caches["Part"] # EmptyDict

\* C24: a resolve_entity with the writer inactive calls the writer for
\* nothing and leaves the shadow rows and the id counters alone; with the
\* writer active a create of a kind the writer supports makes no create call
\* to the live API, which is used only for the kinds the writer does not
\* support; in both modes the pk of a new entity is in the cache under its
\* key when the call returns
C24_ModeSwitch ==
    [][last'.op = "resolve_entity" =>
          /\ ~CSV_DB_WRITER_IS_ACTIVE =>
                ~last'.writer_create /\ UNCHANGED <<DB_ROWS, ID_UPPER_LIMIT, id_counters_fetched>>
          /\ (CSV_DB_WRITER_IS_ACTIVE /\ last'.kind \in WriterKinds) =>
                last'.api_create = "none" /\ api_db' = api_db
          /\ (CSV_DB_WRITER_IS_ACTIVE /\ last'.api_create # "none") =>
                last'.kind \notin WriterKinds
          /\ (last'.pk # NoPk /\ (last'.api_create = "ok" \/ last'.writer_create)) =>
                DictGet(caches'[last'.kind], last'.key) = last'.pk]_vars

\* C26: a resolve_entity that finds the key in the cache makes no list call
\* and no create call; one that misses and whose key is among the listed
\* instances makes no create call; and a create call, to the API or to the
\* writer, is made only in a call that missed the cache and whose list call
\* succeeded
C26_StrictOrder ==
    [][(last'.op = "resolve_entity" /\ last'.kind \in Kinds) =>
          /\ last'.hit <=> DictGet(caches[last'.kind], last'.key) # NoPk
          /\ last'.hit =>
                last'.listed = "none" /\ last'.api_create = "none" /\ ~last'.writer_create
          /\ (~last'.hit /\ last'.listed = "ok"
                /\ DictGet(EntityDict(last'.kind, api_db[last'.kind]), last'.key) # NoPk) =>
                /\ last'.api_create = "none" /\ ~last'.writer_create
                /\ last'.pk = DictGet(EntityDict(last'.kind, api_db[last'.kind]), last'.key)
          /\ (last'.api_create # "none" \/ last'.writer_create) =>
                ~last'.hit /\ last'.listed = "ok"]_vars

\* a call missed the cache, listed, found the key among the listed instances
\* and returned its pk without a create
C26_Witness ==
    /\ last.op = "resolve_entity" /\ ~last.hit /\ last.listed = "ok"
    /\ last.pk # NoPk /\ last.api_create = "none" /\ ~last.writer_create

\* C27: a resolve_entity whose list call fails returns None, makes no create
\* call to the API or to the writer, and leaves the caches, the live store
\* and the writer's rows and counters as they were before the call
C27_ListFailureBlocksCreate ==
    [][(last'.op = "resolve_entity" /\ last'.listed = "failed") =>
          /\ last'.pk = NoPk /\ last'.api_create = "none" /\ ~last'.writer_create
          /\ UNCHANGED <<caches, api_db, DB_ROWS, ID_UPPER_LIMIT, id_counters_fetched>>]_vars

\* the list call failed on a miss of a cache that held entries, with the
\* writer active
C27_Witness ==
    /\ last.op = "resolve_entity" /\ last.listed = "failed" /\ last.pk = NoPk
    /\ caches[last.kind] # EmptyDict /\ CSV_DB_WRITER_IS_ACTIVE

\* C28: when a resolve_entity has listed the instances of a kind, the next
\* resolve_entity of that kind makes no list call: a miss after the first
\* list goes to the create with the cache as it is
C28_ListedOncePerKind ==
    [][(/\ last.op = "resolve_entity" /\ last.listed = "ok"
        /\ last'.op = "resolve_entity" /\ last'.kind = last.kind) =>
          last'.listed = "none"]_vars

\* C29: no step of the resolver or of the entity cache changes the pk a
\* cache holds for a key: an entry of either cache that is still there after
\* the step maps its key to the same pk as before
C29_NeverRemapped ==
    [][\A K \in Kinds :
          /\ \A k \in DOMAIN caches[K] \cap DOMAIN caches'[K] : caches'[K][k] = caches[K][k]
          /\ \A k \in DOMAIN entity_cache[K] \cap DOMAIN entity_cache'[K] :
                entity_cache'[K][k] = entity_cache[K][k]]_vars

----------------------------------------------------------------------------
(* Properties of the composite keys of the two components *)

\* a key of the cache, a tuple of raw values, and a key of the resolver, a
\* tuple of strings, are equal as Python tuples
KeysEqual(raw, strs) ==
    Len(raw) = Len(strs) /\ \A i \in 1..Len(raw) : raw[i] = S(strs[i])

\* C30: the cache and the resolver use the same table of identifier fields,
\* and the key under which EntityCache.add stores a payload, or
\* find_by_identifiers looks it up, equals the key resolve_entity computes for
\* the same payload
C30_SameKeyDerivation ==
    /\ EntityCache_IDENTIFIER_LUT = IDENTIFIER_LUT
    /\ last.op \in {"add", "find_by_identifiers"} =>
            KeysEqual(last.key, composite_key(last.kind, last.data))

----------------------------------------------------------------------------
(* Properties of parse_parameter_value *)

\* the value is missing, empty or made of whitespace only
Blank(v) == pd_isna(v) \/ \A i \in 1..Len(v) : v[i] \in Whitespace

\* C25: for every unit, parse_parameter_value of a NaN, empty or
\* whitespace-only value returns ('-', None); for the unit "str" and any other
\* value it returns the value with the whitespace at its ends removed, and
\* None as the numeric value
C25_NonNumericInput ==
    last.op = "parse_parameter_value" =>
        /\ Blank(last.value) => last.display = <<"-">> /\ last.numeric = None
        /\ (last.unit = "str" /\ ~Blank(last.value)) =>
                last.display = Strip(last.value) /\ last.numeric = None

\* a value with whitespace at its ends that starts with a number was parsed
\* for the unit "str"
C25_Witness ==
    /\ last.op = "parse_parameter_value" /\ last.unit = "str" /\ ~Blank(last.value)
    /\ Strip(last.value) # last.value /\ NumberEnd(Strip(last.value)) # 0
    /\ last.display = Strip(last.value) /\ last.numeric = None

----------------------------------------------------------------------------
(* Properties of the flush *)

\* s is a prefix of t
IsPrefix(s, t) == Len(s) <= Len(t) /\ SubSeq(t, 1, Len(s)) = s

\* files are what a flush leaves for the buffers rows: a function of the
\* buffers alone
Flushed(files, rows) ==
    \A t \in Tables : files[t] = IF rows[t] = <<>> THEN NoFile ELSE rows[t]

\* C31: the flush is cumulative and non-destructive.  write_all_db_csv leaves
\* every row buffer and every id counter unchanged, every other step only
\* appends to the buffers, and after a flush the file of every kind with
\* rows holds all rows buffered since process start in append order (a kind
\* without rows has no file): the files after a flush depend on the buffers
\* alone, not on the flushes made before.
C31_FlushCumulative ==
    [][/\ \A t \in Tables : IsPrefix(DB_ROWS[t], DB_ROWS'[t])
       /\ last'.op = "write_all_db_csv" =>
              /\ DB_ROWS' = DB_ROWS
              /\ ID_UPPER_LIMIT' = ID_UPPER_LIMIT
              /\ Flushed(csv_output', DB_ROWS)]_vars

\* a second flush of the part file, after a row was buffered since the first
C31_Witness ==
    /\ last.op = "write_all_db_csv"
    /\ last.before["part"] # NoFile
    /\ Len(last.before["part"]) < Len(csv_output["part"])

----------------------------------------------------------------------------
(* Properties of the category walk *)

\* C32: the walk stops at the first failure.  When resolve_entity fails for
\* level k of a path, resolve_category_string returns no pk and level k was
\* the last level it resolved: no later level is looked up or created.
C32_WalkStopsAtFailure ==
    (last.op = "resolve_category_string" /\ last.failed > 0) =>
        (last.pk = NoPk /\ last.calls = last.failed)

----------------------------------------------------------------------------
(* Properties of concurrent callers of resolve_entity *)

\* two callers have each made a create for the same kind and composite key
DoubleCreate ==
    \E p, q \in Procs :
        /\ p # q
        /\ resolvers[p].created /\ resolvers[q].created
        /\ resolvers[p].kind = resolvers[q].kind
        /\ resolvers[p].key = resolvers[q].key

\* C33: with the path from the cache miss to the cache insert run as one
\* critical section per kind, at most one create is made for a composite
\* key, however the callers are interleaved (without the lock two creates
\* for one key are reachable: DoubleCreate is reached in SpecRace).
C33_OneCreatePerKey == ~DoubleCreate

----------------------------------------------------------------------------
(* Properties of the rows of a file *)

\* C34: every row is ingested, in order.  When process_database_file has run
\* on a file whose rows all have a name, with nothing failing, it returns
\* SUCCESS and create_part has run once for each row of the file, in file
\* order: the part rows buffered by the call are the rows of the file.
C34_EveryRowIngested ==
    (/\ last.op = "process_database_file" /\ last.fault = "none"
     /\ \A i \in 1..Len(last.file) : Named(last.file[i])) =>
        /\ last.error = SUCCESS
        /\ Len(last.pks) = Len(last.file)
        /\ Len(PART_ROWS) >= Len(last.file)
        /\ \A i \in 1..Len(last.file) :
              LET row == PART_ROWS[Len(PART_ROWS) - Len(last.file) + i]
              IN row.id = last.pks[i] /\ row.name = S(Text(last.file[i].NAME))

\* C35: no relation leaks across files.  Whenever process_database_file has
\* returned, with SUCCESS or with an error code, the ledger of pending
\* relations is empty.
C35_LedgerEmptyAfterFile ==
    (last.op = "process_database_file" /\ ~last.raised) => _pending_relations = <<>>

----------------------------------------------------------------------------
(* Properties of the categories *)

\* the categories of the store
Categories == {api_db["PartCategory"][i] : i \in 1..Len(api_db["PartCategory"])}

\* C36: parts only in non-structural categories.  After every sequence of
\* resolve_category_string calls the pk a call returned names a category with
\* structural = false, and every category that is the parent of another
\* category has structural = true.
C36_StructuralConsistent ==
    /\ (last.op = "resolve_category_string" /\ last.pk # NoPk) =>
           \A c \in Categories : c.pk = last.pk => GetAttr(c, "structural") = Bool(FALSE)
    /\ \A c, d \in Categories :
           GetAttr(d, "parent") = I(c.pk) => GetAttr(c, "structural") = Bool(TRUE)

----------------------------------------------------------------------------
(* Properties of the pages of populate *)

\* the entity is in the map under its identifier values, with its pk or with
\* the pk of an entity that has the same identifier values
Cached(map, K, e) ==
    /\ EntityCache_key(K, e.data) \in DOMAIN map
    /\ \E i \in 1..Len(api_db[K]) :
          /\ EntityCache_key(K, api_db[K][i].data) = EntityCache_key(K, e.data)
          /\ api_db[K][i].pk = map[EntityCache_key(K, e.data)]

----------------------------------------------------------------------------
(* Properties of the links of a row *)

\* a ManufacturerPart, live or shadow, that links the part to the manufacturer
HasManufacturerPart(part_pk, manufacturer_pk) ==
    \/ \E i \in 1..Len(api_db["ManufacturerPart"]) :
          /\ GetAttr(api_db["ManufacturerPart"][i], "part") = I(part_pk)
          /\ GetAttr(api_db["ManufacturerPart"][i], "manufacturer") = I(manufacturer_pk)
    \/ \E i \in 1..Len(DB_ROWS["manufacturerpart"]) :
          /\ DB_ROWS["manufacturerpart"][i].cols.part_id = I(part_pk)
          /\ DB_ROWS["manufacturerpart"][i].cols.manufacturer_id = I(manufacturer_pk)

\* a SupplierPart, live or shadow, that links the part to the supplier
HasSupplierPart(part_pk, supplier_pk) ==
    \/ \E i \in 1..Len(api_db["SupplierPart"]) :
          /\ GetAttr(api_db["SupplierPart"][i], "part") = I(part_pk)
          /\ GetAttr(api_db["SupplierPart"][i], "supplier") = I(supplier_pk)
    \/ \E i \in 1..Len(DB_ROWS["supplierpart"]) :
          /\ DB_ROWS["supplierpart"][i].cols.part_id = I(part_pk)
          /\ DB_ROWS["supplierpart"][i].cols.supplier_id = I(supplier_pk)

\* C38: after create_suppliers_and_manufacturers has returned SUCCESS for a row
\* with a manufacturer and an MPN, with the backing store available all along,
\* a ManufacturerPart links the row's part to the manufacturer and, when the
\* row names a supplier, a SupplierPart links the row's part to the supplier
C38_OwnLinks ==
    (/\ last.op = "create_suppliers_and_manufacturers"
     /\ last.error = SUCCESS /\ last.failed = 0 /\ last.kind = NoKind
     /\ ~pd_isna(last.data.MANUFACTURER) /\ ~pd_isna(last.data.MPN))
    => /\ HasManufacturerPart(last.pk, last.pks[1])
       /\ ~pd_isna(last.data.SUPPLIER1) => HasSupplierPart(last.pk, last.pks[3])

----------------------------------------------------------------------------
(* Properties of create_part *)

\* two buffered part rows for the same name, category and revision
SamePart(a, b) ==
    a.name = b.name /\ a.category_id = b.category_id /\ a.revision = b.revision

\* C39: create_part is resolve-or-create.  No two part rows are buffered for the
\* same name, category and revision, and no part pk is issued twice, whatever
\* set_bulk_mode is called with between the files.
C39_CreatePartIdempotent ==
    \A i, j \in 1..Len(PART_ROWS) :
        (SamePart(PART_ROWS[i], PART_ROWS[j]) \/ PART_ROWS[i].id = PART_ROWS[j].id) => i = j

----------------------------------------------------------------------------
(* Properties of the flushed part file *)

\* C40: the flushed output matches what the pipeline created.  When
\* process_database_file has returned SUCCESS after create_part returned part
\* pks, the part file exists and holds exactly one row for each of these pks.
C40_FlushedPartsMatch ==
    (last.op = "process_database_file" /\ last.error = SUCCESS /\ last.pks # <<>>) =>
        /\ csv_output["part"] # NoFile
        /\ \A i \in 1..Len(last.pks) :
              Cardinality({j \in 1..Len(csv_output["part"]) :
                              csv_output["part"][j].id = last.pks[i]}) = 1

====
